---- MODULE Spec2Model ----
(***************************************************************************)
(* Model of the code-validation pipeline of agent-marketplace-ld-api:      *)
(*   - ValidationService.validate (services/validation_service.py), the    *)
(*     sequential orchestration of the security scan, the quality check    *)
(*     and the test run;                                                   *)
(*   - validate_agent_task / _run_validation (tasks/validation.py), the    *)
(*     Celery job that downloads an artifact, extracts it to a temporary   *)
(*     directory, validates it and writes the version record, with the     *)
(*     retry policy of ValidationTask and the time limits of               *)
(*     create_celery_app (tasks/celery.py).                                *)
(*                                                                         *)
(* Two specifications share the variables:                                 *)
(*   SpecValidate  direct calls of ValidationService.validate under every  *)
(*                 combination of skip flags and check outcomes, with the  *)
(*                 clock that total_duration_seconds is read from;         *)
(*   Spec          the life of one validation job for one versionID        *)
(*                 (FairSpec adds the worker's progress).  The job reads   *)
(*                 the clock for total_duration_seconds only, so Spec      *)
(*                 leaves the clock where it is.                           *)
(***************************************************************************)
EXTENDS Integers, Sequences, FiniteSets, TLC

VARIABLES
    pc,          \* per job: position of the job / of its current attempt
    retries,     \* per job: self.request.retries of the current attempt
    runs,        \* per job: number of times the job was submitted
    history,     \* per job: how its earlier submissions ended
    exc,         \* per job: exception propagating out of the attempt (or None)
    soft_fired,  \* per job: the soft time limit already fired in this attempt
    delays,      \* per job: countdowns of the retries scheduled so far
    writes,      \* per job: store commits made in the current lifecycle
    call,        \* per caller: the frame of ValidationService.validate
    dirs,        \* temporary extraction directories that exist on disk
    version,     \* the AgentVersion row of the versionID (with agent.is_validated)
    clock,       \* time.time()
    tool,        \* per caller: what the external tools did in the current call
    validation_service,  \* the module-level _validation_service
    got          \* per caller: its last get_validation_service call

vars == <<pc, retries, runs, history, exc, soft_fired, delays, writes, call, dirs, version, clock, tool,
         validation_service, got>>

----------------------------------------------------------------------------
(* Bounds of the model *)

MaxClock == 2
MaxRuns == 2

(* Program constants *)

max_retries == 3
retry_backoff_max == 600
retry_countdown == 60
default_max_lint_issues == 10

JobIds == {1, 2}
\* Python's None: for a value that is otherwise a record (a result, an
\* exception, a Decimal) and for one that is otherwise a string.
None == [is_none |-> TRUE]
NoneStr == "None"

LintCounts == {0, 11, 21}

----------------------------------------------------------------------------
(* ValidationStatus and the results of the checks *)

PENDING == "pending"
RUNNING == "running"
PASSED == "passed"
FAILED == "failed"
ERROR == "error"

ValidationStatus == {PENDING, RUNNING, PASSED, FAILED, ERROR}

ScanResult(passed) == [passed |-> passed]

TestResult(passed) == [passed |-> passed]

Max(a, b) == IF a >= b THEN a ELSE b

Min(a, b) == IF a <= b THEN a ELSE b

\* A slip that leaves the clamp at zero out.
LintScore_unclamped(lint_issue_count) == 100 - lint_issue_count * 5

\* lint_score = max(0.0, 100.0 - lint_issue_count * 5.0)
LintScore(lint_issue_count) == Max(0, 100 - lint_issue_count * 5)

\* A slip that fails a lint count equal to the maximum.
QualityCheck_strict(config, lint_issue_count, type_check_passed) ==
    [passed |-> (lint_issue_count < config.max_lint_issues)
                /\ (config.require_type_hints => type_check_passed),
     lint_score |-> LintScore(lint_issue_count)]

\* QualityChecker.check: the result for n lint findings and the outcome of
\* the type checker (run only when require_type_hints).
QualityCheck(config, lint_issue_count, type_check_passed) ==
    [passed |-> (lint_issue_count <= config.max_lint_issues)
                /\ (config.require_type_hints => type_check_passed),
     lint_score |-> LintScore(lint_issue_count)]

\* Exceptions carry their type and their text; str(e) is the text.
Exception(type, msg) == [type |-> type, msg |-> msg]

Str(e) == e.msg

PathMissing(type) == Exception(type, "Path does not exist")

ScanTimeout == Exception("ScanError", "Security scan timed out")
LintTimeout == Exception("QualityError", "Lint check timed out")
TypeTimeout == Exception("QualityError", "Type check timed out")
TestsTimeout == Exception("RunnerError", "Tests timed out")
Unexpected == Exception("Exception", "unexpected failure")
SoftTimeLimitExceeded == Exception("SoftTimeLimitExceeded", "SoftTimeLimitExceeded()")

\* What SecurityScanner.scan can do on a path: raise or return a ScanResult.
ScanOutcomes(path_exists) ==
    IF ~path_exists
    THEN {[raises |-> TRUE, e |-> PathMissing("ScanError")]}
    ELSE {[raises |-> TRUE, e |-> x] : x \in {ScanTimeout, Unexpected}}
         \cup {[raises |-> FALSE, result |-> ScanResult(p)] : p \in BOOLEAN}

\* What QualityChecker.check can do.
QualityOutcomes(config, path_exists) ==
    IF ~path_exists
    THEN {[raises |-> TRUE, e |-> PathMissing("QualityError")]}
    ELSE {[raises |-> TRUE, e |-> x] :
              x \in {LintTimeout, Unexpected}
                    \cup (IF config.require_type_hints THEN {TypeTimeout} ELSE {})}
         \cup {[raises |-> FALSE, result |-> QualityCheck(config, n, t)] :
                  n \in LintCounts,
                  t \in (IF config.require_type_hints THEN BOOLEAN ELSE {TRUE})}

\* What TestRunner.run can do.
TestOutcomes(path_exists) ==
    IF ~path_exists
    THEN {[raises |-> TRUE, e |-> PathMissing("RunnerError")]}
    ELSE {[raises |-> TRUE, e |-> x] : x \in {TestsTimeout, Unexpected}}
         \cup {[raises |-> FALSE, result |-> TestResult(p)] : p \in BOOLEAN}

\* ValidationConfig: the fields the pipeline branches on.
ValidationConfig(skip_security, skip_quality, skip_tests, require_type_hints) ==
    [skip_security |-> skip_security,
     skip_quality |-> skip_quality,
     skip_tests |-> skip_tests,
     max_lint_issues |-> default_max_lint_issues,
     require_type_hints |-> require_type_hints,
     security_severity_threshold |-> "medium",
     require_tests |-> FALSE,
     min_coverage |-> None]

Configs ==
    {ValidationConfig(a, b, c, d) : a \in BOOLEAN, b \in BOOLEAN, c \in BOOLEAN, d \in BOOLEAN}

\* The caller has not called get_validation_service.
NoCall == [called |-> FALSE]

\* The frame of a validate call that has not been entered.
IdleCall ==
    [pc |-> "idle",
     config |-> ValidationConfig(FALSE, FALSE, FALSE, FALSE),
     path_exists |-> TRUE,
     security_result |-> None,
     quality_result |-> None,
     test_result |-> None,
     status |-> NoneStr,
     e |-> None,
     error_message |-> NoneStr,
     start_time |-> 0,
     total_duration_seconds |-> 0]

----------------------------------------------------------------------------
(* The external tools: what subprocess.run does for one invocation *)

\* Bounds of the tool outputs
MaxFindings == 2
MaxSourceLines == 1

\* subprocess.TimeoutExpired, FileNotFoundError (no such executable), or a
\* CompletedProcess with its stdout and its exit code.
TimeoutExpired == [kind |-> "timeout"]
ToolNotFound == [kind |-> "missing"]
CompletedProcess(stdout, returncode) ==
    [kind |-> "ran", stdout |-> stdout, returncode |-> returncode]
\* The tool was not invoked.
NoProcess == [kind |-> "none"]

\* What an evaluation does: return a value or raise.
Returns(result) == [raises |-> FALSE, result |-> result]
Raises(e) == [raises |-> TRUE, e |-> e]

AttributeError == Exception("AttributeError", "object has no attribute")
TypeError == Exception("TypeError", "object is not iterable")
ValueError == Exception("ValueError", "is not in list")
JSONDecodeError == Exception("JSONDecodeError", "Expecting value")

\* JSON documents.
JString(s) == [t |-> "string", s |-> s]
JNull == [t |-> "null"]
JList(items) == [t |-> "list", items |-> items]
JObject(fields) == [t |-> "object", keys |-> DOMAIN fields, fields |-> fields]
\* {}
EmptyDict == [t |-> "object", keys |-> {}, fields |-> <<>>]

\* The stdout of a tool that prints JSON: nothing, text that is no JSON, or
\* the text of a document.
EmptyStdout == [t |-> "empty"]
NotJson == [t |-> "text"]
JsonText(doc) == [t |-> "json", doc |-> doc]

\* json.loads
JsonLoads(stdout) ==
    IF stdout.t = "json" THEN Returns(stdout.doc) ELSE Raises(JSONDecodeError)

\* obj.get(key, default): a dict has it, nothing else in a document has.
Get(obj, key, default) ==
    IF obj.t /= "object" THEN Raises(AttributeError)
    ELSE IF key \in obj.keys THEN Returns(obj.fields[key])
    ELSE Returns(default)

RECURSIVE KeysOf(_)
KeysOf(keys) ==
    IF keys = {} THEN <<>>
    ELSE LET k == CHOOSE x \in keys : TRUE
         IN <<JString(k)>> \o KeysOf(keys \ {k})

\* for x in doc: the items of a list, the keys of a dict, the characters of
\* a string; None is not iterable.
Iterate(doc) ==
    IF doc.t = "list" THEN Returns(doc.items)
    ELSE IF doc.t = "object" THEN Returns(KeysOf(doc.keys))
    ELSE IF doc.t = "string"
         THEN Returns(IF doc.s = "" THEN <<>> ELSE <<JString("c")>>)
    ELSE Raises(TypeError)

\* str.lower on the severities a tool prints.
Lower(s) ==
    CASE s = "LOW" -> "low"
      [] s = "MEDIUM" -> "medium"
      [] s = "HIGH" -> "high"
      [] s = "CRITICAL" -> "critical"
      [] s = "UNDEFINED" -> "undefined"
      [] OTHER -> s

RECURSIVE SeqsUpTo(_, _)
\* The sequences over S of length at most n.
SeqsUpTo(S, n) ==
    IF n = 0 THEN {<<>>}
    ELSE LET shorter == SeqsUpTo(S, n - 1)
         IN shorter \cup {Append(q, x) : q \in shorter, x \in S}

----------------------------------------------------------------------------
(* SecurityScanner (validation/scanner.py) *)

SecurityIssue(severity, title) == [severity |-> severity, title |-> title]

ScanResultOf(passed, issues) == [passed |-> passed, issues |-> issues]

severity_levels == <<"low", "medium", "high", "critical">>

\* list.index: the zero-based position, ValueError when s is not in the list.
Index(levels, s) ==
    IF \E i \in 1 .. Len(levels) : levels[i] = s
    THEN Returns((CHOOSE i \in 1 .. Len(levels) : levels[i] = s) - 1)
    ELSE Raises(ValueError)

\* Lines 154-163: what the loop body makes of one finding.
BanditIssue(finding) ==
    LET severity == Get(finding, "issue_severity", JString("medium"))
        title == Get(finding, "issue_text", JString("Unknown issue"))
    IN IF severity.raises THEN severity
       ELSE IF severity.result.t /= "string" THEN Raises(AttributeError)
       ELSE Returns(SecurityIssue(Lower(severity.result.s), title.result.s))

\* Lines 153-163: one SecurityIssue per finding, in order; the loop ends at
\* the first finding its body raises on.
BanditIssues(findings) ==
    LET bad == {i \in 1 .. Len(findings) : BanditIssue(findings[i]).raises}
    IN IF bad /= {}
       THEN BanditIssue(findings[CHOOSE i \in bad : \A k \in bad : i <= k])
       ELSE Returns([i \in 1 .. Len(findings) |-> BanditIssue(findings[i]).result])

\* _run_bandit, lines 128-173.
run_bandit(process) ==
    IF process.kind = "timeout" THEN Raises(ScanTimeout)
    ELSE IF process.kind = "missing" THEN Returns(<<>>)
    ELSE IF process.stdout = EmptyStdout THEN Returns(<<>>)
    ELSE LET data == JsonLoads(process.stdout)
         IN IF data.raises THEN Returns(<<>>)
            ELSE LET results == Get(data.result, "results", JList(<<>>))
                 IN IF results.raises THEN results
                    ELSE LET findings == Iterate(results.result)
                         IN IF findings.raises THEN findings
                            ELSE BanditIssues(findings.result)

\* The lines of the Python files under the path, by what the secret
\* patterns make of them.
SourceLineKinds == {"secret", "commented_secret", "plain"}

RECURSIVE check_secrets(_)
\* _check_secrets, lines 204-231: one high issue per line that matches a
\* pattern and is no comment.
check_secrets(lines) ==
    IF lines = <<>> THEN <<>>
    ELSE (IF Head(lines) = "secret"
          THEN <<SecurityIssue("high", "Potential API key")>>
          ELSE <<>>)
         \o check_secrets(Tail(lines))

RECURSIVE AnyAtOrAbove_strict(_, _)
\* A slip that fails the scan only for a severity above the threshold.
AnyAtOrAbove_strict(issues, threshold_idx) ==
    IF issues = <<>> THEN Returns(FALSE)
    ELSE LET idx == Index(severity_levels, Head(issues).severity)
         IN IF idx.raises THEN idx
            ELSE IF idx.result > threshold_idx THEN Returns(TRUE)
            ELSE AnyAtOrAbove_strict(Tail(issues), threshold_idx)

RECURSIVE AnyAtOrAbove(_, _)
\* Lines 106-108: any(index(i.severity) >= threshold_idx for i in issues),
\* evaluated in order and stopping at the first True.
AnyAtOrAbove(issues, threshold_idx) ==
    IF issues = <<>> THEN Returns(FALSE)
    ELSE LET idx == Index(severity_levels, Head(issues).severity)
         IN IF idx.raises THEN idx
            ELSE IF idx.result >= threshold_idx THEN Returns(TRUE)
            ELSE AnyAtOrAbove(Tail(issues), threshold_idx)

\* Lines 104-117: the verdict over the issues of both sources.
Verdict(issues, threshold_idx, any) ==
    IF threshold_idx.raises THEN threshold_idx
    ELSE IF any.raises THEN any
    ELSE Returns(ScanResultOf(~any.result, issues))

\* Lines 94-117: scan once bandit has returned its issues or raised.
Scanned(severity_threshold, bandit_issues, secret_issues) ==
    IF bandit_issues.raises THEN bandit_issues
    ELSE Verdict(bandit_issues.result \o secret_issues,
                 Index(severity_levels, severity_threshold),
                 AnyAtOrAbove(bandit_issues.result \o secret_issues,
                              Index(severity_levels, severity_threshold).result))

\* SecurityScanner.scan, lines 87-117, with the tools it started.
scan(severity_threshold, path_exists, process, lines) ==
    IF ~path_exists
    THEN [outcome |-> Raises(PathMissing("ScanError")), invoked |-> {}]
    ELSE [outcome |-> Scanned(severity_threshold, run_bandit(process),
                              check_secrets(lines)),
          invoked |-> {"bandit"}]

\* What bandit can print: findings with the severities it knows, with one it
\* does not, without a severity, with a severity that is no string; and
\* documents of another shape.
Finding(severity) == JObject([issue_severity |-> JString(severity),
                              issue_text |-> JString("finding")])

BanditFindings ==
    {Finding(s) : s \in {"LOW", "MEDIUM", "HIGH", "CRITICAL", "UNDEFINED"}}
    \cup {JObject([issue_text |-> JString("finding")]),
          JObject([issue_severity |-> JNull, issue_text |-> JString("finding")]),
          JString("finding")}

BanditStdouts ==
    {EmptyStdout, NotJson}
    \cup {JsonText(JObject([results |-> JList(q)])) : q \in SeqsUpTo(BanditFindings, MaxFindings)}
    \cup {JsonText(JObject([errors |-> JList(<<>>)])),
          JsonText(JObject([results |-> JNull])),
          JsonText(JList(<<>>))}

BanditRuns ==
    {TimeoutExpired, ToolNotFound}
    \cup {CompletedProcess(stdout, 0) : stdout \in BanditStdouts}

----------------------------------------------------------------------------
(* QualityChecker (validation/quality.py) *)

MaxLint == 21
MaxTypeLines == 2

QualityIssue(category, code) == [category |-> category, code |-> code]

QualityResultOf(verdict, issues, type_check_passed) ==
    [passed |-> verdict.passed,
     lint_score |-> verdict.lint_score,
     issues |-> issues,
     type_check_passed |-> type_check_passed]

\* Lines 157-166: what the loop body makes of one finding.
RuffIssue(finding) ==
    LET code == Get(finding, "code", JString("unknown"))
        location == Get(finding, "location", EmptyDict)
    IN IF code.raises THEN code
       ELSE IF Get(location.result, "row", JNull).raises
            THEN Get(location.result, "row", JNull)
       ELSE Returns(QualityIssue("lint", code.result.s))

\* Lines 156-166: one lint issue per finding, in order; the loop ends at the
\* first finding its body raises on.
RuffIssues(findings) ==
    LET bad == {i \in 1 .. Len(findings) : RuffIssue(findings[i]).raises}
    IN IF bad /= {}
       THEN RuffIssue(findings[CHOOSE i \in bad : \A k \in bad : i <= k])
       ELSE Returns([i \in 1 .. Len(findings) |-> RuffIssue(findings[i]).result])

\* _run_ruff, lines 133-176.
run_ruff(process) ==
    IF process.kind = "timeout" THEN Raises(LintTimeout)
    ELSE IF process.kind = "missing" THEN Returns(<<>>)
    ELSE IF process.stdout = EmptyStdout THEN Returns(<<>>)
    ELSE LET data == JsonLoads(process.stdout)
         IN IF data.raises THEN Returns(<<>>)
            ELSE LET findings == Iterate(data.result)
                 IN IF findings.raises THEN findings
                    ELSE RuffIssues(findings.result)

\* A line of mypy's stdout: one the pattern file:line: severity: message
\* matches, with its severity, or another one.
MypyLine(severity) == [matches |-> TRUE, severity |-> severity]
OtherLine == [matches |-> FALSE, severity |-> ""]

\* f"mypy-{severity}"
MypyCode(severity) ==
    CASE severity = "error" -> "mypy-error"
      [] severity = "note" -> "mypy-note"
      [] OTHER -> "mypy-other"

RECURSIVE MypyIssues(_)
\* Lines 208-223: one type issue per matching line.
MypyIssues(lines) ==
    IF lines = <<>> THEN <<>>
    ELSE (IF Head(lines).matches
          THEN <<QualityIssue("type", MypyCode(Head(lines).severity))>>
          ELSE <<>>)
         \o MypyIssues(Tail(lines))

\* _run_mypy, lines 187-237: (issues, passed).
run_mypy(process) ==
    IF process.kind = "timeout" THEN Raises(TypeTimeout)
    ELSE IF process.kind = "missing" THEN Returns([issues |-> <<>>, passed |-> TRUE])
    ELSE Returns([issues |-> MypyIssues(process.stdout),
                  passed |-> /\ ~\E i \in 1 .. Len(process.stdout) :
                                    /\ process.stdout[i].matches
                                    /\ process.stdout[i].severity = "error"
                             /\ process.returncode = 0])

\* Lines 105-122: the result over the issues of both tools.
Quality(config, issues, type_check_passed) ==
    QualityResultOf(
        QualityCheck(config,
                     Len(SelectSeq(issues, LAMBDA i : i.category = "lint")),
                     type_check_passed),
        issues, type_check_passed)

\* Lines 96-122: check once the tools have returned or raised.
Checked(config, lint_issues, types) ==
    IF lint_issues.raises
    THEN [outcome |-> lint_issues, invoked |-> {"ruff"}]
    ELSE [outcome |-> IF types.raises THEN types
                      ELSE Returns(Quality(config,
                                           lint_issues.result \o types.result.issues,
                                           types.result.passed)),
          invoked |-> IF config.require_type_hints THEN {"ruff", "mypy"} ELSE {"ruff"}]

\* QualityChecker.check, lines 86-122, with the tools it started.
check(config, path_exists, ruff, mypy) ==
    IF ~path_exists
    THEN [outcome |-> Raises(PathMissing("QualityError")), invoked |-> {}]
    ELSE Checked(config, run_ruff(ruff),
                 IF config.require_type_hints
                 THEN run_mypy(mypy)
                 ELSE Returns([issues |-> <<>>, passed |-> TRUE]))

LintFinding == JObject([code |-> JString("E501"),
                        location |-> JObject([row |-> JString("1")])])

\* What ruff can print: a list of n findings, and documents of another shape.
RuffStdouts ==
    {EmptyStdout, NotJson}
    \cup {JsonText(JList([i \in 1 .. n |-> LintFinding])) : n \in 0 .. MaxLint}
    \cup {JsonText(JObject([error |-> JString("failed")])),
          JsonText(JList(<<JString("E501")>>)),
          JsonText(JList(<<JObject([code |-> JString("E501"), location |-> JNull])>>))}

RuffRuns ==
    {TimeoutExpired, ToolNotFound}
    \cup {CompletedProcess(stdout, 0) : stdout \in RuffStdouts}

MypyRuns ==
    {TimeoutExpired, ToolNotFound}
    \cup {CompletedProcess(lines, rc) :
              lines \in SeqsUpTo({MypyLine("error"), MypyLine("note"), OtherLine},
                                 MaxTypeLines),
              rc \in {0, 1}}

----------------------------------------------------------------------------
(* TestRunner (validation/runner.py) *)

MaxCases == 2
MaxTokens == 2

\* float values, and the digits a pattern group captured.
Float(x) == [float |-> x]
Digits(n) == [digits |-> n]
\* int(group)
ToInt(group) == group.digits

TestResultOf(passed, counts, coverage_percent, output) ==
    [passed |-> passed,
     total_tests |-> counts.total,
     passed_tests |-> counts.passed,
     failed_tests |-> counts.failed,
     skipped_tests |-> counts.skipped,
     error_tests |-> counts.error,
     coverage_percent |-> coverage_percent,
     output |-> output]

\* TestResult(passed=..., output=...): the other fields at their defaults.
TestResultDefault(passed, output) ==
    TestResultOf(passed,
                 [total |-> 0, passed |-> 0, failed |-> 0, skipped |-> 0, error |-> 0],
                 None, output)

\* The output of pytest: the case lines name::test STATUS it holds, the
\* 'N word' counts of its summary line (none: no such line), the percentage
\* of a TOTAL line (None: no such line).
PytestOutput(cases, summary, coverage) ==
    [cases |-> cases, summary |-> summary, coverage |-> coverage]

Token(n, word) == [n |-> n, word |-> word]

\* Lines 224-241: the number of case lines with a status.
CaseCount(cases, status) == Len(SelectSeq(cases, LAMBDA c : c = status))

\* The first 'N word' after position p of the line (0: none), which is where
\* the lazy '.*?(\d+)\s+word' of the summary pattern matches.
FirstAfter(tokens, p, word) ==
    LET S == {i \in (p + 1) .. Len(tokens) : tokens[i].word = word}
    IN IF S = {} THEN 0 ELSE CHOOSE i \in S : \A k \in S : i <= k

Group(tokens, p) == IF p = 0 THEN None ELSE Digits(tokens[p].n)

\* The position the pattern is at after an optional group tried from p.
Advance(p, q) == IF q = 0 THEN p ELSE q

RECURSIVE OptionalGroups(_, _, _)
\* The optional groups of the summary pattern, tried one after the other
\* from position p: each matches further along the line or not at all.
OptionalGroups(tokens, p, words) ==
    IF words = <<>> THEN <<>>
    ELSE <<Group(tokens, FirstAfter(tokens, p, Head(words)))>>
         \o OptionalGroups(tokens,
                           Advance(p, FirstAfter(tokens, p, Head(words))),
                           Tail(words))

\* The groups of a match that has 'N passed' at position p.
MatchAt(tokens, p) ==
    IF p = 0 THEN None
    ELSE [groups |-> <<Group(tokens, p)>>
                     \o OptionalGroups(tokens, p, <<"failed", "skipped", "error">>)]

\* Lines 245-248: summary_pattern.search: the groups of the match, or None.
\* The pattern takes 'passed' first and then, each optional and in this
\* order, 'failed', 'skipped' and 'error' further along the line.
SummaryMatch(tokens) == MatchAt(tokens, FirstAfter(tokens, 0, "passed"))

\* Lines 249-258: a count is replaced when its group matched.
Override(count, match, k) ==
    IF match /= None /\ match.groups[k] /= None THEN ToInt(match.groups[k]) ELSE count

\* Lines 224-258: the four counts.
Counts(cases, summary_match) ==
    [passed |-> Override(CaseCount(cases, "PASSED"), summary_match, 1),
     failed |-> Override(CaseCount(cases, "FAILED"), summary_match, 2),
     skipped |-> Override(CaseCount(cases, "SKIPPED"), summary_match, 3),
     error |-> Override(CaseCount(cases, "ERROR"), summary_match, 4)]

\* Lines 267-280: total_tests, passed and the TestResult.
Parsed(counts, coverage_percent, return_code) ==
    TestResultOf(return_code = 0 /\ counts.failed = 0 /\ counts.error = 0,
                 [total |-> counts.passed + counts.failed + counts.skipped + counts.error,
                  passed |-> counts.passed,
                  failed |-> counts.failed,
                  skipped |-> counts.skipped,
                  error |-> counts.error],
                 coverage_percent, "pytest output")

\* _parse_pytest_output, lines 213-280.
parse_pytest_output(output, return_code) ==
    Parsed(Counts(output.cases, SummaryMatch(output.summary)),
           output.coverage, return_code)

\* A slip that lets the missing executable fail the check.
run_pytest_missing_raises(process) ==
    IF process.kind = "timeout" THEN Raises(TestsTimeout)
    ELSE IF process.kind = "missing"
         THEN Raises(Exception("RunnerError", "pytest not available"))
    ELSE Returns(parse_pytest_output(process.stdout, process.returncode))

\* A slip that reports a timeout of the test tool as failed tests.
run_pytest_timeout_fails(process) ==
    IF process.kind = "timeout"
    THEN Returns(TestResultDefault(FALSE, "Tests timed out"))
    ELSE IF process.kind = "missing"
         THEN Returns(TestResultDefault(FALSE, "pytest not available"))
    ELSE Returns(parse_pytest_output(process.stdout, process.returncode))

\* _run_pytest, lines 173-193.
run_pytest(process) ==
    IF process.kind = "timeout" THEN Raises(TestsTimeout)
    ELSE IF process.kind = "missing"
         THEN Returns(TestResultDefault(FALSE, "pytest not available"))
    ELSE Returns(parse_pytest_output(process.stdout, process.returncode))

\* A slip that fails a coverage equal to the minimum.
BelowCoverage_inclusive(min_coverage, coverage_percent) ==
    /\ min_coverage /= None
    /\ coverage_percent /= None
    /\ coverage_percent.float <= min_coverage.float

\* Lines 112-118: the coverage threshold.
BelowCoverage(min_coverage, coverage_percent) ==
    /\ min_coverage /= None
    /\ coverage_percent /= None
    /\ coverage_percent.float < min_coverage.float

\* Lines 110-120: run once pytest has returned a result or raised.
Ran(config, result) ==
    IF result.raises THEN result
    ELSE IF BelowCoverage(config.min_coverage, result.result.coverage_percent)
         THEN Returns([result.result EXCEPT !.passed = FALSE])
    ELSE result

\* A slip that passes a path without test files whether or not tests are
\* required.
run_tests_never_required(config, path_exists, test_files, pytest) ==
    IF ~path_exists
    THEN [outcome |-> Raises(PathMissing("RunnerError")), invoked |-> {}]
    ELSE IF ~test_files
    THEN [outcome |-> Returns(TestResultDefault(TRUE, "No tests to run")),
          invoked |-> {}]
    ELSE [outcome |-> Ran(config, run_pytest(pytest)), invoked |-> {"pytest"}]

\* TestRunner.run, lines 82-120, with the tools it started.
run(config, path_exists, test_files, pytest) ==
    IF ~path_exists
    THEN [outcome |-> Raises(PathMissing("RunnerError")), invoked |-> {}]
    ELSE IF ~test_files /\ config.require_tests
    THEN [outcome |-> Returns(TestResultDefault(FALSE, "No test files found")),
          invoked |-> {}]
    ELSE IF ~test_files
    THEN [outcome |-> Returns(TestResultDefault(TRUE, "No tests to run")),
          invoked |-> {}]
    ELSE [outcome |-> Ran(config, run_pytest(pytest)), invoked |-> {"pytest"}]

CaseStatuses == {"PASSED", "FAILED", "SKIPPED", "ERROR"}

SummaryTokens == {Token(2, word) : word \in {"passed", "failed", "skipped", "error"}}

Coverages == {None, Float(79), Float(80)}

PytestOutputs ==
    {PytestOutput(cases, summary, coverage) :
         cases \in SeqsUpTo(CaseStatuses, MaxCases),
         summary \in SeqsUpTo(SummaryTokens, MaxTokens),
         coverage \in Coverages}

PytestRuns ==
    {TimeoutExpired, ToolNotFound}
    \cup {CompletedProcess(output, rc) : output \in PytestOutputs, rc \in {0, 1}}

\* What the tools of one call did: the processes that were started (and
\* their names), the source lines the secret scan read, whether test files
\* were found.
IdleTool ==
    [bandit |-> NoProcess,
     lines |-> <<>>,
     ruff |-> NoProcess,
     mypy |-> NoProcess,
     test_files |-> FALSE,
     pytest |-> NoProcess,
     invoked |-> {}]

----------------------------------------------------------------------------
(* ValidationService.validate, one step per statement group *)

\* A slip that leaves the test result out of the verdict.
OverallStatus_no_tests(security_result, quality_result, test_result) ==
    LET all_passed ==
            /\ ~(security_result /= None /\ ~security_result.passed)
            /\ ~(quality_result /= None /\ ~quality_result.passed)
    IN IF all_passed THEN PASSED ELSE FAILED

\* Lines 170-179: PASSED iff every result that is present has passed.
OverallStatus(security_result, quality_result, test_result) ==
    LET all_passed ==
            /\ ~(security_result /= None /\ ~security_result.passed)
            /\ ~(quality_result /= None /\ ~quality_result.passed)
            /\ ~(test_result /= None /\ ~test_result.passed)
    IN IF all_passed THEN PASSED ELSE FAILED

\* The three check statements in the order validate has them (lines 158-168).
CheckOrder == <<"security", "quality", "tests">>

\* if not self.config.skip_<check>
SkippedIn(config, name) ==
    CASE name = "security" -> config.skip_security
      [] name = "quality" -> config.skip_quality
      [] name = "tests" -> config.skip_tests

\* The local a check's result is assigned to.
ResultLocal(name) ==
    CASE name = "security" -> "security_result"
      [] name = "quality" -> "quality_result"
      [] name = "tests" -> "test_result"

\* Lines 152-155: the locals before the try block.
InitialLocals ==
    [status |-> NoneStr,
     security_result |-> None,
     quality_result |-> None,
     test_result |-> None,
     error_message |-> NoneStr]

RECURSIVE TryBlock_fail_fast(_, _, _, _)
\* A slip that ends the run at the first check that did not pass.
TryBlock_fail_fast(order, config, outcomes, locals) ==
    IF order = <<>>
    THEN [locals EXCEPT !.status = OverallStatus(locals.security_result,
                                                 locals.quality_result,
                                                 locals.test_result)]
    ELSE IF SkippedIn(config, Head(order))
    THEN TryBlock_fail_fast(Tail(order), config, outcomes, locals)
    ELSE IF outcomes[Head(order)].raises
    THEN [locals EXCEPT !.status = ERROR,
                        !.error_message = Str(outcomes[Head(order)].e)]
    ELSE IF ~outcomes[Head(order)].result.passed
    THEN [locals EXCEPT !.status = FAILED,
                        ![ResultLocal(Head(order))] = outcomes[Head(order)].result]
    ELSE TryBlock_fail_fast(Tail(order), config, outcomes,
                            [locals EXCEPT ![ResultLocal(Head(order))] =
                                               outcomes[Head(order)].result])

RECURSIVE TryBlock(_, _, _, _)
\* Lines 157-183: the try block as one evaluation, for the check statements
\* taken in an order (CheckOrder is the order of the source) and the outcome
\* each check has when it is run.  A check that raises ends the block in the
\* except clause; the checks after it are not run.
TryBlock(order, config, outcomes, locals) ==
    IF order = <<>>
    THEN [locals EXCEPT !.status = OverallStatus(locals.security_result,
                                                 locals.quality_result,
                                                 locals.test_result)]
    ELSE IF SkippedIn(config, Head(order))
    THEN TryBlock(Tail(order), config, outcomes, locals)
    ELSE IF outcomes[Head(order)].raises
    THEN [locals EXCEPT !.status = ERROR,
                        !.error_message = Str(outcomes[Head(order)].e)]
    ELSE TryBlock(Tail(order), config, outcomes,
                  [locals EXCEPT ![ResultLocal(Head(order))] =
                                     outcomes[Head(order)].result])

\* The caller of validate is still running it (a killed worker runs nothing).
Executing(j) == pc[j] \in {"direct", "validate"}

\* Lines 148-155: entry, start_time and the four locals.
validate_enter(j) ==
    /\ Executing(j)
    /\ call[j].pc = "enter"
    /\ call' = [call EXCEPT ![j].pc = "security",
                            ![j].start_time = clock,
                            ![j].security_result = None,
                            ![j].quality_result = None,
                            ![j].test_result = None,
                            ![j].status = NoneStr,
                            ![j].e = None,
                            ![j].error_message = NoneStr]
    /\ UNCHANGED <<pc, retries, runs, history, exc, soft_fired, delays, writes, dirs, version, clock, tool, validation_service, got>>

\* A slip that drops the results gathered before the exception.
Caught_reset(j, e) ==
    [call EXCEPT ![j].pc = "finish",
                 ![j].status = ERROR,
                 ![j].e = e,
                 ![j].error_message = Str(e),
                 ![j].security_result = None,
                 ![j].quality_result = None,
                 ![j].test_result = None]

\* A slip that guards each check on its own and goes on to the next one.
Caught_continue(j, e) ==
    [call EXCEPT ![j].pc = IF @ = "security" THEN "quality"
                           ELSE IF @ = "quality" THEN "tests" ELSE "finish",
                 ![j].status = ERROR,
                 ![j].e = e,
                 ![j].error_message = Str(e)]

\* Lines 181-183: except Exception as e.
Caught(j, e) ==
    [call EXCEPT ![j].pc = "finish",
                 ![j].status = ERROR,
                 ![j].e = e,
                 ![j].error_message = Str(e)]

\* A slip that lets the exception of the scan out of validate.
validate_security_propagates(j) ==
    /\ Executing(j)
    /\ call[j].pc = "security"
    /\ IF call[j].config.skip_security
       THEN /\ call' = [call EXCEPT ![j].pc = "quality"]
            /\ UNCHANGED <<pc, exc, dirs>>
       ELSE \E o \in ScanOutcomes(call[j].path_exists) :
                IF o.raises
                THEN /\ pc' = [pc EXCEPT ![j] = "handler"]
                     /\ exc' = [exc EXCEPT ![j] = o.e]
                     /\ dirs' = dirs \ {<<j, runs[j]>>}
                     /\ call' = [call EXCEPT ![j] = IdleCall]
                ELSE /\ call' = [call EXCEPT ![j].pc = "quality",
                                             ![j].security_result = o.result]
                     /\ UNCHANGED <<pc, exc, dirs>>
    /\ UNCHANGED <<retries, runs, history, soft_fired, delays, writes, version, clock, tool, validation_service, got>>

\* Lines 158-160: the security scan unless skipped.
validate_security(j) ==
    /\ Executing(j)
    /\ call[j].pc = "security"
    /\ IF call[j].config.skip_security
       THEN call' = [call EXCEPT ![j].pc = "quality"]
       ELSE \E o \in ScanOutcomes(call[j].path_exists) :
                call' = IF o.raises
                        THEN Caught(j, o.e)
                        ELSE [call EXCEPT ![j].pc = "quality",
                                          ![j].security_result = o.result]
    /\ UNCHANGED <<pc, retries, runs, history, exc, soft_fired, delays, writes, dirs, version, clock, tool, validation_service, got>>

\* Lines 162-164: the quality check unless skipped.
validate_quality(j) ==
    /\ Executing(j)
    /\ call[j].pc = "quality"
    /\ IF call[j].config.skip_quality
       THEN call' = [call EXCEPT ![j].pc = "tests"]
       ELSE \E o \in QualityOutcomes(call[j].config, call[j].path_exists) :
                call' = IF o.raises
                        THEN Caught(j, o.e)
                        ELSE [call EXCEPT ![j].pc = "tests",
                                          ![j].quality_result = o.result]
    /\ UNCHANGED <<pc, retries, runs, history, exc, soft_fired, delays, writes, dirs, version, clock, tool, validation_service, got>>

\* Lines 166-168: the test run unless skipped.
validate_tests(j) ==
    /\ Executing(j)
    /\ call[j].pc = "tests"
    /\ IF call[j].config.skip_tests
       THEN call' = [call EXCEPT ![j].pc = "aggregate"]
       ELSE \E o \in TestOutcomes(call[j].path_exists) :
                call' = IF o.raises
                        THEN Caught(j, o.e)
                        ELSE [call EXCEPT ![j].pc = "aggregate",
                                          ![j].test_result = o.result]
    /\ UNCHANGED <<pc, retries, runs, history, exc, soft_fired, delays, writes, dirs, version, clock, tool, validation_service, got>>

\* Lines 170-179: the overall status.
validate_aggregate(j) ==
    /\ Executing(j)
    /\ call[j].pc = "aggregate"
    /\ call' = [call EXCEPT ![j].pc = "finish",
                            ![j].status = OverallStatus(call[j].security_result,
                                                        call[j].quality_result,
                                                        call[j].test_result)]
    /\ UNCHANGED <<pc, retries, runs, history, exc, soft_fired, delays, writes, dirs, version, clock, tool, validation_service, got>>

\* Line 185: total_duration = time.time() - start_time.
TotalDuration(now, start_time) == now - start_time

\* Lines 185-194: the ValidationResult is built and returned.
validate_return(j) ==
    /\ Executing(j)
    /\ call[j].pc = "finish"
    /\ call' = [call EXCEPT ![j].pc = "returned",
                            ![j].total_duration_seconds =
                                TotalDuration(clock, call[j].start_time)]
    /\ UNCHANGED <<pc, retries, runs, history, exc, soft_fired, delays, writes, dirs, version, clock, tool, validation_service, got>>

validate(j) ==
    \/ validate_enter(j)
    \/ validate_security(j)
    \/ validate_quality(j)
    \/ validate_tests(j)
    \/ validate_aggregate(j)
    \/ validate_return(j)

\* time.time() moves on while a call of validate is under way.
tick ==
    /\ clock < MaxClock
    /\ clock' = clock + 1
    /\ UNCHANGED <<pc, retries, runs, history, exc, soft_fired, delays, writes, call, dirs, version, tool, validation_service, got>>

\* A caller other than the job invokes service.validate(code_path).
direct_call(j) ==
    /\ pc[j] = "direct"
    /\ call[j].pc \in {"idle", "returned"}
    /\ \E config \in Configs, path_exists \in BOOLEAN :
           call' = [call EXCEPT ![j] = [IdleCall EXCEPT !.pc = "enter",
                                                        !.config = config,
                                                        !.path_exists = path_exists]]
    /\ UNCHANGED <<pc, retries, runs, history, exc, soft_fired, delays, writes, dirs, version, clock, tool, validation_service, got>>

----------------------------------------------------------------------------
(* The checkers called on their own, and validate with the tools behind it *)

\* The checkers keep nothing between two calls, so a caller's pass-through
\* call is modelled once, on a service that has not been called.
Thresholds == {severity_levels[i] : i \in 1 .. Len(severity_levels)}

\* The frame after a checker called on its own has returned or raised.
Passed_through(config, path_exists, name, o) ==
    [IdleCall EXCEPT !.pc = IF o.raises THEN name \o "_raised" ELSE name \o "_returned",
                     !.config = config,
                     !.path_exists = path_exists,
                     !.e = IF o.raises THEN o.e ELSE None,
                     !.security_result = IF name = "scan" /\ ~o.raises THEN o.result ELSE None,
                     !.quality_result = IF name = "check" /\ ~o.raises THEN o.result ELSE None,
                     !.test_result = IF name = "run" /\ ~o.raises THEN o.result ELSE None]

\* validate_security_only, lines 196-205: SecurityScanner.scan on a path.
validate_security_only(j) ==
    /\ pc[j] = "direct"
    /\ call[j].pc = "idle"
    /\ \E severity_threshold \in Thresholds, path_exists \in BOOLEAN,
          process \in BanditRuns, lines \in SeqsUpTo(SourceLineKinds, MaxSourceLines) :
           LET config == [ValidationConfig(FALSE, FALSE, FALSE, FALSE)
                              EXCEPT !.security_severity_threshold = severity_threshold]
           IN \E r \in {scan(severity_threshold, path_exists, process, lines)} :
              /\ (~path_exists => process = ToolNotFound /\ lines = <<>>)
              /\ call' = [call EXCEPT ![j] = Passed_through(config, path_exists, "scan", r.outcome)]
              /\ tool' = [tool EXCEPT ![j] =
                             [IdleTool EXCEPT !.bandit = IF "bandit" \in r.invoked
                                                         THEN process ELSE NoProcess,
                                              !.lines = lines,
                                              !.invoked = r.invoked]]
    /\ UNCHANGED <<pc, retries, runs, history, exc, soft_fired, delays, writes, dirs, version, clock, validation_service, got>>

\* validate_quality_only, lines 207-216: QualityChecker.check on a path.
validate_quality_only(j) ==
    /\ pc[j] = "direct"
    /\ call[j].pc = "idle"
    /\ \E require_type_hints \in BOOLEAN, path_exists \in BOOLEAN,
          ruff \in RuffRuns, mypy \in MypyRuns :
           LET config == ValidationConfig(FALSE, FALSE, FALSE, require_type_hints)
           IN \E r \in {check(config, path_exists, ruff, mypy)} :
              /\ call' = [call EXCEPT ![j] = Passed_through(config, path_exists, "check", r.outcome)]
              /\ tool' = [tool EXCEPT ![j] =
                             [IdleTool EXCEPT !.ruff = IF "ruff" \in r.invoked
                                                       THEN ruff ELSE NoProcess,
                                              !.mypy = IF "mypy" \in r.invoked
                                                       THEN mypy ELSE NoProcess,
                                              !.invoked = r.invoked]]
    /\ UNCHANGED <<pc, retries, runs, history, exc, soft_fired, delays, writes, dirs, version, clock, validation_service, got>>

\* validate_tests_only, lines 218-227: TestRunner.run on a path.
validate_tests_only(j) ==
    /\ pc[j] = "direct"
    /\ call[j].pc = "idle"
    /\ \E require_tests \in BOOLEAN, min_coverage \in {None, Float(80)},
          path_exists \in BOOLEAN, test_files \in BOOLEAN, pytest \in PytestRuns :
           LET config == [ValidationConfig(FALSE, FALSE, FALSE, FALSE)
                              EXCEPT !.require_tests = require_tests,
                                     !.min_coverage = min_coverage]
           IN \E r \in {run(config, path_exists, test_files, pytest)} :
              /\ (~path_exists => ~test_files)
              /\ call' = [call EXCEPT ![j] = Passed_through(config, path_exists, "run", r.outcome)]
              /\ tool' = [tool EXCEPT ![j] =
                             [IdleTool EXCEPT !.test_files = test_files,
                                              !.pytest = IF "pytest" \in r.invoked
                                                         THEN pytest ELSE NoProcess,
                                              !.invoked = r.invoked]]
    /\ UNCHANGED <<pc, retries, runs, history, exc, soft_fired, delays, writes, dirs, version, clock, validation_service, got>>

\* What a tool does behind a full validate call: it times out, it is not
\* installed, or it runs and reports nothing (pytest: a passing or a failing
\* test).
BanditBehind ==
    {TimeoutExpired, ToolNotFound,
     CompletedProcess(JsonText(JObject([results |-> JList(<<>>)])), 0)}
RuffBehind == {TimeoutExpired, ToolNotFound, CompletedProcess(JsonText(JList(<<>>)), 0)}
MypyBehind == {TimeoutExpired, ToolNotFound, CompletedProcess(<<>>, 0)}
PytestBehind ==
    {TimeoutExpired, ToolNotFound,
     CompletedProcess(PytestOutput(<<"PASSED">>, <<>>, None), 0),
     CompletedProcess(PytestOutput(<<"FAILED">>, <<>>, None), 1)}

\* A caller invokes service.validate(code_path) for a service built from
\* a config.
validate_call(j) ==
    /\ pc[j] = "direct"
    /\ call[j].pc \in {"idle", "returned"}
    /\ \E config \in Configs, require_tests \in BOOLEAN, path_exists \in BOOLEAN :
           call' = [call EXCEPT ![j] =
                       [IdleCall EXCEPT !.pc = "enter",
                                        !.config = [config EXCEPT !.require_tests = require_tests],
                                        !.path_exists = path_exists]]
    /\ tool' = [tool EXCEPT ![j] = IdleTool]
    /\ UNCHANGED <<pc, retries, runs, history, exc, soft_fired, delays, writes, dirs, version, clock, validation_service, got>>

\* Lines 158-160 with the scanner behind them.
validate_security_scan(j) ==
    /\ Executing(j)
    /\ call[j].pc = "security"
    /\ IF call[j].config.skip_security
       THEN /\ call' = [call EXCEPT ![j].pc = "quality"]
            /\ tool' = tool
       ELSE \E process \in BanditBehind :
                \E r \in {scan(call[j].config.security_severity_threshold, call[j].path_exists, process, <<>>)} :
                   /\ call' = IF r.outcome.raises
                              THEN Caught(j, r.outcome.e)
                              ELSE [call EXCEPT ![j].pc = "quality",
                                                ![j].security_result = r.outcome.result]
                   /\ tool' = [tool EXCEPT ![j].bandit = IF "bandit" \in r.invoked
                                                         THEN process ELSE NoProcess,
                                           ![j].invoked = @ \cup r.invoked]
    /\ UNCHANGED <<pc, retries, runs, history, exc, soft_fired, delays, writes, dirs, version, clock, validation_service, got>>

\* Lines 162-164 with the quality checker behind them.
validate_quality_check(j) ==
    /\ Executing(j)
    /\ call[j].pc = "quality"
    /\ IF call[j].config.skip_quality
       THEN /\ call' = [call EXCEPT ![j].pc = "tests"]
            /\ tool' = tool
       ELSE \E ruff \in RuffBehind, mypy \in MypyBehind :
                \E r \in {check(call[j].config, call[j].path_exists, ruff, mypy)} :
                   /\ ("mypy" \notin r.invoked => mypy = ToolNotFound)
                   /\ ("ruff" \notin r.invoked => ruff = ToolNotFound)
                   /\ call' = IF r.outcome.raises
                              THEN Caught(j, r.outcome.e)
                              ELSE [call EXCEPT ![j].pc = "tests",
                                                ![j].quality_result = r.outcome.result]
                   /\ tool' = [tool EXCEPT ![j].ruff = IF "ruff" \in r.invoked
                                                       THEN ruff ELSE NoProcess,
                                           ![j].mypy = IF "mypy" \in r.invoked
                                                       THEN mypy ELSE NoProcess,
                                           ![j].invoked = @ \cup r.invoked]
    /\ UNCHANGED <<pc, retries, runs, history, exc, soft_fired, delays, writes, dirs, version, clock, validation_service, got>>

\* Lines 166-168 with the test runner behind them.
validate_tests_run(j) ==
    /\ Executing(j)
    /\ call[j].pc = "tests"
    /\ IF call[j].config.skip_tests
       THEN /\ call' = [call EXCEPT ![j].pc = "aggregate"]
            /\ tool' = tool
       ELSE \E test_files \in BOOLEAN, pytest \in PytestBehind :
                \E r \in {run(call[j].config, call[j].path_exists, test_files, pytest)} :
                   /\ (~call[j].path_exists => ~test_files)
                   /\ ("pytest" \notin r.invoked => pytest = ToolNotFound)
                   /\ call' = IF r.outcome.raises
                              THEN Caught(j, r.outcome.e)
                              ELSE [call EXCEPT ![j].pc = "aggregate",
                                                ![j].test_result = r.outcome.result]
                   /\ tool' = [tool EXCEPT ![j].test_files = test_files,
                                           ![j].pytest = IF "pytest" \in r.invoked
                                                         THEN pytest ELSE NoProcess,
                                           ![j].invoked = @ \cup r.invoked]
    /\ UNCHANGED <<pc, retries, runs, history, exc, soft_fired, delays, writes, dirs, version, clock, validation_service, got>>

----------------------------------------------------------------------------
(* The version record *)

\* Decimal(str(lint_score / 100.0)), kept in hundredths of a point.
Decimal(hundredths) == [hundredths |-> hundredths]

\* AgentVersion defaults and Agent.is_validated default (models/agent.py),
\* as AgentService.create_agent leaves them.
FreshVersion ==
    [exists |-> TRUE,
     has_agent |-> TRUE,
     tested |-> FALSE,
     security_scan_passed |-> FALSE,
     quality_score |-> None,
     is_validated |-> FALSE]

\* A version as scripts/seed_agents.py inserts it.
SeededVersion ==
    [exists |-> TRUE,
     has_agent |-> TRUE,
     tested |-> TRUE,
     security_scan_passed |-> TRUE,
     quality_score |-> Decimal(8500),
     is_validated |-> TRUE]

\* No row for the versionID: scalar_one_or_none() returns None.
NoVersion == [FreshVersion EXCEPT !.exists = FALSE, !.has_agent = FALSE]

\* A version whose agent relationship is None (test_update_validation_results_no_security).
OrphanVersion == [FreshVersion EXCEPT !.has_agent = FALSE]

NoWrites == [running |-> 0, failed |-> 0, results |-> 0]

\* A slip that inserts a row for a versionID that has none.
UpdateStatus_upsert(v, status) ==
    IF status = RUNNING
    THEN [v EXCEPT !.exists = TRUE, !.tested = FALSE, !.security_scan_passed = FALSE]
    ELSE IF status = FAILED
    THEN [v EXCEPT !.exists = TRUE, !.tested = TRUE, !.security_scan_passed = FALSE]
    ELSE v

\* _update_validation_status, lines 147-157: the row after the commit.
UpdateStatus(v, status) ==
    IF ~v.exists THEN v
    ELSE IF status = RUNNING
         THEN [v EXCEPT !.tested = FALSE, !.security_scan_passed = FALSE]
    ELSE IF status = FAILED
         THEN [v EXCEPT !.tested = TRUE, !.security_scan_passed = FALSE]
    ELSE v

\* _update_validation_status(agent_version_id, status, error_message), lines
\* 124-157: the row after the call.  The body does not use error_message.
update_validation_status(v, status, error_message) == UpdateStatus(v, status)

\* A slip that takes a missing security result for a scan that did not pass.
UpdateResults_absent_scan_fails(v, result) ==
    IF ~v.exists THEN v
    ELSE [v EXCEPT
            !.tested = TRUE,
            !.security_scan_passed =
                IF result.security_result /= None
                THEN result.security_result.passed ELSE FALSE,
            !.quality_score =
                IF result.quality_result /= None
                THEN Decimal(result.quality_result.lint_score) ELSE @,
            !.is_validated =
                IF v.has_agent THEN result.status = PASSED ELSE @]

\* A slip that keeps the first result written for a version.
UpdateResults_first_wins(v, result) ==
    IF ~v.exists \/ v.tested THEN v
    ELSE [v EXCEPT
            !.tested = TRUE,
            !.security_scan_passed =
                IF result.security_result /= None
                THEN result.security_result.passed ELSE TRUE,
            !.quality_score =
                IF result.quality_result /= None
                THEN Decimal(result.quality_result.lint_score) ELSE @,
            !.is_validated =
                IF v.has_agent THEN result.status = PASSED ELSE @]

\* _update_validation_results, lines 181-194: the row after the commit.
UpdateResults(v, result) ==
    IF ~v.exists THEN v
    ELSE [v EXCEPT
            !.tested = TRUE,
            !.security_scan_passed =
                IF result.security_result /= None
                THEN result.security_result.passed ELSE TRUE,
            !.quality_score =
                IF result.quality_result /= None
                THEN Decimal(result.quality_result.lint_score) ELSE @,
            !.is_validated =
                IF v.has_agent THEN result.status = PASSED ELSE @]

\* The commit counted in the job's lifecycle (no row, no commit).
Committed(j, kind) ==
    IF version.exists THEN [writes EXCEPT ![j][kind] = @ + 1] ELSE writes

----------------------------------------------------------------------------
(* validate_agent_task and _run_validation *)

MaxRetriesExceededError == Exception("MaxRetriesExceededError", "Can't retry")
DatabaseError == Exception("OperationalError", "database unavailable")
DownloadError == Exception("FileNotFoundError", "File not found")
BadZipFile == Exception("BadZipFile", "File is not a zip file")

\* The positions of an attempt between its start and its end.
RunningPcs == {"set_running", "download", "mkdtemp", "extract", "run_validate",
               "validate", "return"}

\* The positions inside the 'with tempfile.TemporaryDirectory()' block.
InTempDir == {"extract", "run_validate", "validate", "return"}

TerminalPcs == {"completed", "failed_permanent"}

\* The directory of the current attempt of job j (the attempts of one
\* submission follow each other, so their directories never coexist).
DirId(j) == <<j, runs[j]>>

\* TemporaryDirectory.__exit__: the directory of the attempt is removed.
Cleanup(j) == dirs \ {DirId(j)}

\* An exception e leaves _run_validation and reaches the handlers of
\* validate_agent_task (lines 60-66).
Raise(j, e) ==
    /\ pc' = [pc EXCEPT ![j] = "handler"]
    /\ exc' = [exc EXCEPT ![j] = e]
    /\ dirs' = Cleanup(j)
    /\ call' = [call EXCEPT ![j] = IdleCall]

\* request.retries of the next attempt (Task.retry: retries = request.retries + 1).
NextRetries(r) == r + 1

\* A slip that allows one retry more.
RetryExhausted_off_by_one(r) == r > max_retries

\* Task.retry gives up when retries > max_retries.
RetryExhausted(r) == NextRetries(r) > max_retries

\* celery.utils.time.get_exponential_backoff_interval(factor=1, retries,
\* maximum=retry_backoff_max, full_jitter=True): randrange(countdown + 1).
Pow2(n) == 2 ^ n

BackoffIntervals(r) == 0 .. Min(retry_backoff_max, Pow2(r))

\* The job is (re)submitted for the versionID.
submit(j) ==
    /\ pc[j] \in TerminalPcs
    /\ runs[j] < MaxRuns
    /\ pc' = [pc EXCEPT ![j] = "scheduled"]
    /\ runs' = [runs EXCEPT ![j] = @ + 1]
    /\ history' = [history EXCEPT ![j] = Append(@, pc[j])]
    /\ retries' = [retries EXCEPT ![j] = 0]
    /\ exc' = [exc EXCEPT ![j] = None]
    /\ soft_fired' = [soft_fired EXCEPT ![j] = FALSE]
    /\ delays' = [delays EXCEPT ![j] = <<>>]
    /\ writes' = [writes EXCEPT ![j] = NoWrites]
    /\ call' = [call EXCEPT ![j] = IdleCall]
    /\ UNCHANGED <<dirs, version, clock, tool, validation_service, got>>

\* A worker takes the message: the first attempt or a scheduled retry.
start_attempt(j) ==
    /\ pc[j] \in {"scheduled", "retry_scheduled"}
    /\ retries' = [retries EXCEPT ![j] = IF pc[j] = "scheduled" THEN 0 ELSE NextRetries(@)]
    /\ pc' = [pc EXCEPT ![j] = "set_running"]
    /\ exc' = [exc EXCEPT ![j] = None]
    /\ soft_fired' = [soft_fired EXCEPT ![j] = FALSE]
    /\ call' = [call EXCEPT ![j] = IdleCall]
    /\ UNCHANGED <<runs, history, delays, writes, dirs, version, clock, tool, validation_service, got>>

\* Line 88: await _update_validation_status(agent_version_id, "running").
update_validation_status_running(j) ==
    /\ pc[j] = "set_running"
    /\ \/ /\ version' = UpdateStatus(version, RUNNING)
          /\ writes' = Committed(j, "running")
          /\ pc' = [pc EXCEPT ![j] = "download"]
          /\ UNCHANGED <<exc, dirs, tool, validation_service, got>>
          /\ call' = call
       \/ /\ Raise(j, DatabaseError)
          /\ UNCHANGED <<version, writes, tool, validation_service, got>>
    /\ UNCHANGED <<retries, runs, history, soft_fired, delays, clock, tool, validation_service, got>>

\* Line 91: file_data = await storage.download_file(storage_key).
download_file(j) ==
    /\ pc[j] = "download"
    /\ \/ /\ pc' = [pc EXCEPT ![j] = "mkdtemp"]
          /\ UNCHANGED <<exc, dirs, call, tool, validation_service, got>>
       \/ Raise(j, DownloadError)
    /\ UNCHANGED <<retries, runs, history, soft_fired, delays, writes, version, clock, tool, validation_service, got>>

\* Line 94: with tempfile.TemporaryDirectory() as temp_dir.
temporary_directory(j) ==
    /\ pc[j] = "mkdtemp"
    /\ dirs' = dirs \cup {DirId(j)}
    /\ pc' = [pc EXCEPT ![j] = "extract"]
    /\ UNCHANGED <<retries, runs, history, exc, soft_fired, delays, writes, call, version, clock, tool, validation_service, got>>

\* Lines 95-108: the zip is written and extracted.
extract(j) ==
    /\ pc[j] = "extract"
    /\ \/ /\ pc' = [pc EXCEPT ![j] = "run_validate"]
          /\ UNCHANGED <<exc, dirs, call, tool, validation_service, got>>
       \/ Raise(j, BadZipFile)
    /\ UNCHANGED <<retries, runs, history, soft_fired, delays, writes, version, clock, tool, validation_service, got>>

\* A slip that lets the job run the tests.
run_validate_with_tests(j) ==
    /\ pc[j] = "run_validate"
    /\ pc' = [pc EXCEPT ![j] = "validate"]
    /\ call' = [call EXCEPT ![j] =
                   [IdleCall EXCEPT !.pc = "enter",
                                    !.config = ValidationConfig(FALSE, FALSE, FALSE, FALSE),
                                    !.path_exists = TRUE]]
    /\ UNCHANGED <<retries, runs, history, exc, soft_fired, delays, writes, dirs, version, clock, tool, validation_service, got>>

\* Lines 111-116: the job's config and the call of service.validate.
run_validate(j) ==
    /\ pc[j] = "run_validate"
    /\ pc' = [pc EXCEPT ![j] = "validate"]
    /\ call' = [call EXCEPT ![j] =
                   [IdleCall EXCEPT !.pc = "enter",
                                    !.config = ValidationConfig(FALSE, FALSE, TRUE, FALSE),
                                    !.path_exists = TRUE]]
    /\ UNCHANGED <<retries, runs, history, exc, soft_fired, delays, writes, dirs, version, clock, tool, validation_service, got>>

\* A slip that writes the result without waiting for validate to return.
update_validation_results_early(j) ==
    /\ pc[j] = "validate"
    /\ version' = UpdateResults(version, call[j])
    /\ writes' = Committed(j, "results")
    /\ pc' = [pc EXCEPT ![j] = "return"]
    /\ UNCHANGED <<retries, runs, history, exc, soft_fired, delays, call, dirs, clock, tool, validation_service, got>>

\* Line 119: await _update_validation_results(agent_version_id, result).
update_validation_results(j) ==
    /\ pc[j] = "validate"
    /\ call[j].pc = "returned"
    /\ \/ /\ version' = UpdateResults(version, call[j])
          /\ writes' = Committed(j, "results")
          /\ pc' = [pc EXCEPT ![j] = "return"]
          /\ UNCHANGED <<exc, dirs, call, tool, validation_service, got>>
       \/ /\ Raise(j, DatabaseError)
          /\ UNCHANGED <<version, writes, tool, validation_service, got>>
    /\ UNCHANGED <<retries, runs, history, soft_fired, delays, clock, tool, validation_service, got>>

\* Line 121 and line 59: the with block is left and the task returns.
task_return(j) ==
    /\ pc[j] = "return"
    /\ dirs' = Cleanup(j)
    /\ pc' = [pc EXCEPT ![j] = "completed"]
    /\ UNCHANGED <<retries, runs, history, exc, soft_fired, delays, writes, call, version, clock, tool, validation_service, got>>

\* Line 66: the countdown passed to self.retry.
RetryCountdown(r) == retry_countdown

\* Lines 60-66: the two except clauses of validate_agent_task.  Nothing that
\* _run_validation calls raises MaxRetriesExceededError (Task.retry is called
\* in the second clause only, and with exc=e it re-raises e when the retries
\* are exhausted), so the steps above never bring the first clause an
\* exception of that type.
handle_exception(j) ==
    /\ pc[j] = "handler"
    /\ IF exc[j].type = "MaxRetriesExceededError"
       THEN \* lines 60-63: the 'failed' write, then the exception is re-raised
            /\ \/ /\ version' = UpdateStatus(version, FAILED)
                  /\ writes' = Committed(j, "failed")
                  /\ exc' = exc
               \/ /\ exc' = [exc EXCEPT ![j] = DatabaseError]
                  /\ UNCHANGED <<version, writes, tool, validation_service, got>>
            /\ pc' = [pc EXCEPT ![j] = "autoretry"]
            /\ delays' = delays
       ELSE \* lines 64-66: self.retry(exc=e, countdown=60) raises Retry, or
            \* raises e itself once the retries are exhausted
            /\ IF RetryExhausted(retries[j])
               THEN /\ pc' = [pc EXCEPT ![j] = "autoretry"]
                    /\ delays' = delays
               ELSE /\ pc' = [pc EXCEPT ![j] = "retry_scheduled"]
                    /\ delays' = [delays EXCEPT ![j] = Append(@, RetryCountdown(retries[j]))]
            /\ UNCHANGED <<version, writes, exc, tool, validation_service, got>>
    /\ UNCHANGED <<retries, runs, history, soft_fired, call, dirs, clock, tool, validation_service, got>>

\* ValidationTask, lines 22-26: an exception other than Retry that leaves the
\* task body is retried by autoretry_for with the backoff countdown, until
\* max_retries; then the task fails with the exception.  The body lets an
\* exception out only when its own self.retry has found the retries
\* exhausted, so the backoff countdown is computed for no retry.
autoretry(j) ==
    /\ pc[j] = "autoretry"
    /\ IF RetryExhausted(retries[j])
       THEN /\ pc' = [pc EXCEPT ![j] = "failed_permanent"]
            /\ delays' = delays
       ELSE /\ pc' = [pc EXCEPT ![j] = "retry_scheduled"]
            /\ \E countdown \in BackoffIntervals(retries[j]) :
                   delays' = [delays EXCEPT ![j] = Append(@, countdown)]
    /\ UNCHANGED <<retries, runs, history, exc, soft_fired, writes, call, dirs, version, clock, tool, validation_service, got>>

\* task_soft_time_limit (celery.py line 43): SoftTimeLimitExceeded is raised
\* in the worker's main thread, wherever it is executing.  Inside the try
\* block of validate it is an Exception that validate catches; anywhere else
\* (the event loop, the rest of _run_validation) it leaves the attempt.
soft_time_limit(j) ==
    /\ pc[j] \in RunningPcs
    /\ ~soft_fired[j]
    /\ soft_fired' = [soft_fired EXCEPT ![j] = TRUE]
    /\ \/ /\ pc[j] = "validate"
          /\ call[j].pc \in {"security", "quality", "tests", "aggregate"}
          /\ call' = Caught(j, SoftTimeLimitExceeded)
          /\ UNCHANGED <<pc, exc, dirs, tool, validation_service, got>>
       \/ Raise(j, SoftTimeLimitExceeded)
    /\ UNCHANGED <<retries, runs, history, delays, writes, version, clock, tool, validation_service, got>>

\* task_time_limit (celery.py line 44): the worker process is killed; nothing
\* of the attempt runs any more and the task is marked failed.
hard_time_limit(j) ==
    /\ pc[j] \in RunningPcs
    /\ soft_fired[j]
    /\ pc' = [pc EXCEPT ![j] = "failed_permanent"]
    /\ call' = [call EXCEPT ![j] = IdleCall]
    /\ UNCHANGED <<retries, runs, history, exc, soft_fired, delays, writes, dirs, version, clock, tool, validation_service, got>>

validate_agent_task(j) ==
    \/ start_attempt(j)
    \/ update_validation_status_running(j)
    \/ download_file(j)
    \/ temporary_directory(j)
    \/ extract(j)
    \/ run_validate(j)
    \/ validate(j)
    \/ update_validation_results(j)
    \/ task_return(j)
    \/ handle_exception(j)
    \/ autoretry(j)

time_limit(j) == soft_time_limit(j) \/ hard_time_limit(j)

----------------------------------------------------------------------------
(* Specification of the job *)

Init ==
    /\ pc = [j \in JobIds |-> IF j = 1 THEN "scheduled" ELSE "none"]
    /\ retries = [j \in JobIds |-> 0]
    /\ runs = [j \in JobIds |-> IF j = 1 THEN 1 ELSE 0]
    /\ history = [j \in JobIds |-> <<>>]
    /\ exc = [j \in JobIds |-> None]
    /\ soft_fired = [j \in JobIds |-> FALSE]
    /\ delays = [j \in JobIds |-> <<>>]
    /\ writes = [j \in JobIds |-> NoWrites]
    /\ call = [j \in JobIds |-> IdleCall]
    /\ dirs = {}
    /\ version \in {FreshVersion, SeededVersion, NoVersion}
    /\ clock = 0
    /\ tool = [j \in JobIds |-> IdleTool]
    /\ validation_service = None
    /\ got = [j \in JobIds |-> NoCall]

Next == \E j \in JobIds : validate_agent_task(j) \/ time_limit(j) \/ submit(j)

Spec == Init /\ [][Next]_vars

\* The worker pool runs every job it holds; time limits and resubmissions
\* may or may not happen.
FairSpec == Spec /\ \A j \in JobIds : WF_vars(validate_agent_task(j))

----------------------------------------------------------------------------
(* Properties of ValidationService.validate (checked under SpecValidate) *)

Returned(j) == call[j].pc = "returned"

\* The checks the config enables, and whether a result says 'passed'.
Has(result) == result /= None

PassedOrAbsent(skipped, result) == skipped \/ (Has(result) /\ result.passed)

\* C1: when no check raises, validate returns PASSED iff every check that
\* was not skipped returned passed=true and FAILED otherwise; with all three
\* checks skipped it returns PASSED with the three results None and a
\* duration >= 0; it never returns PENDING or RUNNING.
C1_StatusIffAllChecksPassed ==
    \A j \in JobIds :
        Returned(j) =>
            LET c == call[j] IN
            /\ c.status \in {PASSED, FAILED, ERROR}
            /\ c.e = None =>
                  /\ Has(c.security_result) <=> ~c.config.skip_security
                  /\ Has(c.quality_result) <=> ~c.config.skip_quality
                  /\ Has(c.test_result) <=> ~c.config.skip_tests
                  /\ c.status = PASSED <=>
                        /\ PassedOrAbsent(c.config.skip_security, c.security_result)
                        /\ PassedOrAbsent(c.config.skip_quality, c.quality_result)
                        /\ PassedOrAbsent(c.config.skip_tests, c.test_result)
                  /\ c.status /= PASSED => c.status = FAILED
            /\ (c.config.skip_security /\ c.config.skip_quality /\ c.config.skip_tests) =>
                  /\ c.status = PASSED
                  /\ ~Has(c.security_result) /\ ~Has(c.quality_result) /\ ~Has(c.test_result)
                  /\ c.total_duration_seconds >= 0

\* C1 happens: a run without security scan whose quality check passed and
\* whose tests did not, and a run with everything skipped.
C1_Witness ==
    \E j \in JobIds :
        /\ Returned(j) /\ call[j].e = None /\ call[j].status = FAILED
        /\ call[j].config.skip_security
        /\ Has(call[j].quality_result) /\ call[j].quality_result.passed
        /\ Has(call[j].test_result) /\ ~call[j].test_result.passed

\* The exception texts the checks at position p of validate can raise.
RaisableTexts(c) ==
    {Str(o.e) : o \in {x \in ScanOutcomes(c.path_exists) \cup
                             QualityOutcomes(c.config, c.path_exists) \cup
                             TestOutcomes(c.path_exists) : x.raises}}

SameResults(c, d) ==
    /\ d.security_result = c.security_result
    /\ d.quality_result = c.quality_result
    /\ d.test_result = c.test_result

\* C2: when an enabled check raises, validate does not raise: the call goes
\* on to return status ERROR with error_message the exception text, and the
\* results of the checks completed before are still attached when it returns.
C2_ExceptionBecomesError ==
    [][\A j \in JobIds :
          /\ (call[j].pc \in {"security", "quality", "tests"} /\ call'[j].pc = "finish") =>
                /\ call'[j].e /= None
                /\ call'[j].status = ERROR
                /\ call'[j].error_message \in RaisableTexts(call[j])
                /\ call'[j].error_message = call'[j].e.msg
                /\ SameResults(call[j], call'[j])
          /\ (call[j].pc = "finish" /\ call'[j].pc = "returned") =>
                /\ call'[j].status = call[j].status
                /\ call'[j].error_message = call[j].error_message
                /\ SameResults(call[j], call'[j])
          /\ (call[j].pc = "finish" /\ call[j].e /= None) => call'[j].pc \in {"finish", "returned"}
      ]_vars

\* C2 happens: the quality check raised after the security scan completed,
\* and the scan result is on the returned ValidationResult.
C2_Witness ==
    \E j \in JobIds :
        /\ Returned(j) /\ call[j].status = ERROR
        /\ call[j].e = LintTimeout /\ call[j].error_message = "Lint check timed out"
        /\ Has(call[j].security_result)

PerCheckTimeouts == {ScanTimeout, LintTimeout, TypeTimeout}

\* C10 as stated: a timeout of the security scan or of the quality check is
\* fatal to that check only; the remaining enabled checks are still executed
\* and their results are attached.
C10_TimeoutFatalToCheckOnly ==
    \A j \in JobIds :
        (Returned(j) /\ call[j].e \in PerCheckTimeouts) =>
            /\ (call[j].e = ScanTimeout /\ ~call[j].config.skip_quality) =>
                    Has(call[j].quality_result)
            /\ ~call[j].config.skip_tests => Has(call[j].test_result)

\* C10 amended: a timeout of the security scan or of the quality check ends
\* the whole run with status ERROR and the timeout text; the checks after
\* the one that timed out are not executed (their results are None), the
\* results of the checks before it stay attached.
C10_TimeoutEndsRun ==
    \A j \in JobIds :
        (Returned(j) /\ call[j].e \in PerCheckTimeouts) =>
            /\ call[j].status = ERROR
            /\ call[j].error_message = call[j].e.msg
            /\ ~Has(call[j].test_result)
            /\ call[j].e = ScanTimeout =>
                   ~Has(call[j].security_result) /\ ~Has(call[j].quality_result)
            /\ call[j].e \in {LintTimeout, TypeTimeout} =>
                   /\ ~Has(call[j].quality_result)
                   /\ Has(call[j].security_result) <=> ~call[j].config.skip_security

\* C10 happens: the security scan timed out with the two other checks enabled.
C10_Witness ==
    \E j \in JobIds :
        /\ Returned(j) /\ call[j].e = ScanTimeout
        /\ ~call[j].config.skip_quality /\ ~call[j].config.skip_tests

\* The orders the three check statements can be taken in.
Orders ==
    {order \in [1 .. 3 -> {"security", "quality", "tests"}] :
         \A a, b \in 1 .. 3 : a /= b => order[a] /= order[b]}

\* What validate puts on the ValidationResult, the duration apart.
Produced(c) ==
    [status |-> c.status,
     security_result |-> c.security_result,
     quality_result |-> c.quality_result,
     test_result |-> c.test_result,
     error_message |-> c.error_message]

\* One outcome for each check of a call.
OutcomeTriples(c) ==
    {[security |-> s, quality |-> q, tests |-> t] :
         s \in ScanOutcomes(c.path_exists),
         q \in QualityOutcomes(c.config, c.path_exists),
         t \in TestOutcomes(c.path_exists)}

\* The outcomes of the checks under which validate produces what call c
\* returned.
OutcomesBehind(c) ==
    {o \in OutcomeTriples(c) :
         TryBlock(CheckOrder, c.config, o, InitialLocals) = Produced(c)}

\* An enabled check raises.
SomeRaises(config, o) ==
    \E i \in 1 .. 3 : ~SkippedIn(config, CheckOrder[i]) /\ o[CheckOrder[i]].raises

\* C21 as stated: for every fixed outcome of each check (passed, not
\* passed, raises) the ValidationResult (status, attached results,
\* error_message) is the same for every order in which the three checks are
\* executed.
C21_AggregationCommutative ==
    \A j \in JobIds :
        Returned(j) =>
            \A o \in OutcomesBehind(call[j]) : \A order \in Orders :
                TryBlock(order, call[j].config, o, InitialLocals) = Produced(call[j])

\* C21 amended: validate runs the checks in the fixed order security,
\* quality, tests.  For every fixed outcome of each check the status is the
\* same for every order, and when no enabled check raises so are the
\* attached results and the error_message (None); when an enabled check
\* raises, every order gives ERROR with the text of one of the raising
\* checks, but which results are attached depends on the order.
C21_CommutativeUnlessRaised ==
    \A j \in JobIds :
        Returned(j) =>
            /\ OutcomesBehind(call[j]) /= {}
            /\ \A o \in OutcomesBehind(call[j]) : \A order \in Orders :
                   LET produced == TryBlock(order, call[j].config, o, InitialLocals)
                   IN /\ produced.status = call[j].status
                      /\ ~SomeRaises(call[j].config, o) => produced = Produced(call[j])
                      /\ SomeRaises(call[j].config, o) =>
                             \E i \in 1 .. 3 :
                                 /\ ~SkippedIn(call[j].config, CheckOrder[i])
                                 /\ o[CheckOrder[i]].raises
                                 /\ produced.error_message = Str(o[CheckOrder[i]].e)

\* C21 happens: the three checks ran, none raised, the scan did not pass and
\* the two others did.
C21_Witness ==
    \E j \in JobIds :
        /\ Returned(j) /\ call[j].e = None
        /\ Has(call[j].security_result) /\ ~call[j].security_result.passed
        /\ Has(call[j].quality_result) /\ call[j].quality_result.passed
        /\ Has(call[j].test_result) /\ call[j].test_result.passed
        /\ call[j].status = FAILED

----------------------------------------------------------------------------
(* Properties of the job (checked under Spec and FairSpec) *)

\* The job failed for good because its retries are exhausted (not because
\* the worker was killed): the last exception is what the task failed with.
RetriesExhausted(j) == pc[j] = "failed_permanent" /\ exc[j] /= None

\* C3 as stated: once every attempt has failed with an ordinary exception
\* and the retry budget is exhausted, the 'failed' status is persisted
\* (tested=True, security_scan_passed=False); the record is not left RUNNING.
\* (Stated for the jobs whose every attempt wrote RUNNING, so that the store
\* was there to take the 'failed' write.)
C3_FailedStatusPersisted ==
    \A j \in JobIds :
        (RetriesExhausted(j) /\ writes[j].running = max_retries + 1) =>
            /\ version.tested
            /\ ~version.security_scan_passed
            /\ writes[j].failed = 1

\* C4: a job is retried at most max_retries times (at most 1 + 3 attempts),
\* and under fair scheduling every scheduled job reaches COMPLETED or
\* FAILED_PERMANENT.
C4_BoundedRetriesAndTermination ==
    /\ [](\A j \in JobIds : retries[j] <= max_retries /\ Len(delays[j]) <= max_retries)
    /\ \A j \in JobIds : (pc[j] = "scheduled") ~> (pc[j] \in TerminalPcs)

\* C4 happens: a job that used its three retries and failed for good.
C4_Witness ==
    \E j \in JobIds : RetriesExhausted(j) /\ retries[j] = max_retries /\ Len(delays[j]) = max_retries

\* C5 as stated: the delay before retry k+1 is larger than the delay before
\* retry k until the cap is reached, and no delay exceeds the cap of 600 s.
C5_ExponentialBackoff ==
    \A j \in JobIds :
        /\ \A k \in 1 .. Len(delays[j]) : delays[j][k] <= retry_backoff_max
        /\ \A k \in 1 .. Len(delays[j]) - 1 :
               delays[j][k + 1] > delays[j][k] \/ delays[j][k + 1] = retry_backoff_max

\* The attempt that owns directory d is still inside its with block.
OwnerInside(d) ==
    /\ pc[d[1]] \in InTempDir
    /\ runs[d[1]] = d[2]

\* C6 as stated: an extraction directory exists only while the attempt that
\* created it is inside its with block; once the attempt has ended, on any
\* path, the directory is gone.
C6_TempDirAlwaysRemoved == \A d \in dirs : OwnerInside(d)

\* C7 as stated: over the lifecycle of one job the store is written exactly
\* twice: once with status RUNNING and once with the terminal result.
\* (Stated for the jobs that ran to completion on an existing record.)
C7_ExactlyTwoWrites ==
    \A j \in JobIds :
        (pc[j] = "completed" /\ version.exists) =>
            /\ writes[j].running = 1
            /\ writes[j].results + writes[j].failed = 1

\* What a result write leaves when the written fields depend on the result
\* alone (a result without quality result then leaves what it leaves on a
\* fresh row: no score).
WrittenFrom(result) ==
    [tested |-> TRUE,
     security_scan_passed |-> IF Has(result.security_result)
                              THEN result.security_result.passed ELSE TRUE,
     quality_score |-> IF Has(result.quality_result)
                       THEN Decimal(result.quality_result.lint_score) ELSE None,
     is_validated |-> result.status = PASSED]

WrittenFields(v) ==
    [tested |-> v.tested,
     security_scan_passed |-> v.security_scan_passed,
     quality_score |-> v.quality_score,
     is_validated |-> v.is_validated]

\* C8 as stated: after a job was run again for the same versionID and
\* completed, the written fields of the record are determined by the
\* ValidationResult of that run, whatever the earlier run left.
C8_RerunOverwrites ==
    \A j \in JobIds :
        (pc[j] = "completed" /\ version.exists
            /\ history[j] /= <<>> /\ history[j][Len(history[j])] = "completed") =>
            WrittenFields(version) = WrittenFrom(call[j])

\* C9 as stated: once the time limit has fired in an attempt, the attempt is
\* cancelled: it commits no ValidationResult and the job does not complete.
C9_TimeLimitCancelsAttempt ==
    [][\A j \in JobIds :
          soft_fired[j] =>
              /\ writes'[j].results <= writes[j].results
              /\ pc'[j] /= "completed"
      ]_vars

----------------------------------------------------------------------------
(* Specification of direct validate calls *)

InitValidate ==
    /\ pc = [j \in JobIds |-> IF j = 1 THEN "direct" ELSE "none"]
    /\ retries = [j \in JobIds |-> 0]
    /\ runs = [j \in JobIds |-> 0]
    /\ history = [j \in JobIds |-> <<>>]
    /\ exc = [j \in JobIds |-> None]
    /\ soft_fired = [j \in JobIds |-> FALSE]
    /\ delays = [j \in JobIds |-> <<>>]
    /\ writes = [j \in JobIds |-> NoWrites]
    /\ call = [j \in JobIds |-> IdleCall]
    /\ dirs = {}
    /\ version = FreshVersion
    /\ clock = 0
    /\ tool = [j \in JobIds |-> IdleTool]
    /\ validation_service = None
    /\ got = [j \in JobIds |-> NoCall]

NextValidate == tick \/ \E j \in JobIds : direct_call(j) \/ validate(j)

SpecValidate == InitValidate /\ [][NextValidate]_vars

----------------------------------------------------------------------------
(* Specification of the checkers and of validate with the tools behind it *)

NextChecks ==
    \E j \in JobIds :
        \/ validate_security_only(j)
        \/ validate_quality_only(j)
        \/ validate_tests_only(j)
        \/ validate_call(j)
        \/ validate_enter(j)
        \/ validate_security_scan(j)
        \/ validate_quality_check(j)
        \/ validate_tests_run(j)
        \/ validate_aggregate(j)
        \/ validate_return(j)

SpecChecks == InitValidate /\ [][NextChecks]_vars

----------------------------------------------------------------------------
(* Properties of the checkers (checked under SpecChecks) *)

ToolNames == {"bandit", "ruff", "mypy", "pytest"}

\* The tool was started in the current call and did this.
Did(j, name, process) == name \in tool[j].invoked /\ tool[j][name] = process

\* A checker called on its own has raised / has returned.
RaisedPcs == {"scan_raised", "check_raised", "run_raised"}
ReturnedPcs == {"scan_returned", "check_returned", "run_returned"}

\* The structured error of the check a tool belongs to.
ErrorTypeOf(name) ==
    CASE name = "bandit" -> "ScanError"
      [] name \in {"ruff", "mypy"} -> "QualityError"
      [] name = "pytest" -> "RunnerError"

TimedOutTexts == {"Security scan timed out", "Lint check timed out",
                  "Type check timed out", "Tests timed out"}

\* C11: when the external tool of a check exceeds its timeout, the check
\* raises its structured error (ScanError, QualityError, RunnerError) with a
\* 'timed out' text, and validate ends with status ERROR and that text as
\* error_message, for each of the three checks alike; it never ends FAILED
\* or PASSED.
C11_TimeoutIsError ==
    \A j \in JobIds : \A name \in ToolNames :
        Did(j, name, TimeoutExpired) =>
            /\ call[j].pc \in RaisedPcs \cup {"finish", "returned"}
            /\ call[j].e /= None
            /\ call[j].e.type = ErrorTypeOf(name)
            /\ call[j].e.msg \in TimedOutTexts
            /\ call[j].pc \in {"finish", "returned"} =>
                  /\ call[j].status = ERROR
                  /\ call[j].error_message = call[j].e.msg

\* C11 happens: validate returned after the test tool timed out, the two
\* checks before it having passed.
C11_Witness ==
    \E j \in JobIds :
        /\ Returned(j) /\ Did(j, "pytest", TimeoutExpired)
        /\ Has(call[j].security_result) /\ Has(call[j].quality_result)
        /\ call[j].status = ERROR

\* The four severities in their order low < medium < high < critical.
Rank(severity) ==
    CASE severity = "low" -> 1
      [] severity = "medium" -> 2
      [] severity = "high" -> 3
      [] severity = "critical" -> 4

Severities == {"low", "medium", "high", "critical"}

IsSecretIssue(issue) == issue.title = "Potential API key"

\* C12: for each of the four thresholds and every list of findings with
\* severities among the four, scan returns passed=true iff no finding has a
\* severity at or above the threshold; a hardcoded-secret finding has
\* severity high, so it fails the scan for the thresholds low, medium and
\* high and never for the threshold critical.
C12_PassedIffBelowThreshold ==
    \A j \in JobIds :
        LET result == call[j].security_result
            threshold == call[j].config.security_severity_threshold
        IN (/\ call[j].pc = "scan_returned"
            /\ \A i \in 1 .. Len(result.issues) : result.issues[i].severity \in Severities) =>
               /\ result.passed <=>
                      ~\E i \in 1 .. Len(result.issues) :
                           Rank(result.issues[i].severity) >= Rank(threshold)
               /\ \A i \in 1 .. Len(result.issues) :
                      IsSecretIssue(result.issues[i]) =>
                          /\ result.issues[i].severity = "high"
                          /\ threshold /= "critical" => ~result.passed
               /\ (\E k \in 1 .. Len(tool[j].lines) : tool[j].lines[k] = "secret") =>
                      \E i \in 1 .. Len(result.issues) : IsSecretIssue(result.issues[i])
               /\ (/\ threshold = "critical"
                   /\ \A i \in 1 .. Len(result.issues) : IsSecretIssue(result.issues[i])) =>
                      result.passed

\* C12 happens: a scan with threshold critical passed with a high finding of
\* the tool and a hardcoded secret.
C12_Witness ==
    \E j \in JobIds :
        /\ call[j].pc = "scan_returned"
        /\ call[j].config.security_severity_threshold = "critical"
        /\ call[j].security_result.passed
        /\ Len(call[j].security_result.issues) = 2
        /\ call[j].security_result.issues[1].severity = "high"
        /\ IsSecretIssue(call[j].security_result.issues[2])

\* The document has the shape the security tool documents: an object whose
\* results are a list of objects, each with a string issue_severity or none.
BanditShape(doc) ==
    /\ doc.t = "object"
    /\ "results" \in doc.keys => doc.fields.results.t = "list"
    /\ "results" \in doc.keys =>
           \A i \in 1 .. Len(doc.fields.results.items) :
               LET finding == doc.fields.results.items[i]
               IN /\ finding.t = "object"
                  /\ "issue_severity" \in finding.keys =>
                         finding.fields.issue_severity.t = "string"

\* The document has the shape the linter documents: a list of objects, each
\* with a location that is an object or none.
RuffShape(doc) ==
    /\ doc.t = "list"
    /\ \A i \in 1 .. Len(doc.items) :
           /\ doc.items[i].t = "object"
           /\ "location" \in doc.items[i].keys => doc.items[i].fields.location.t = "object"

\* The tool ran and printed something that is no JSON, or JSON of another
\* shape than the documented one.
Malformed(j, name) ==
    /\ name \in tool[j].invoked
    /\ tool[j][name].kind = "ran"
    /\ tool[j][name].stdout /= EmptyStdout
    /\ tool[j][name].stdout.t = "json" =>
           IF name = "bandit" THEN ~BanditShape(tool[j][name].stdout.doc)
           ELSE ~RuffShape(tool[j][name].stdout.doc)

\* C13 as stated: scan fails only with ScanError, and only when the path
\* does not exist or the security tool timed out; on every other input,
\* findings with an issue_severity outside the four included, it returns a
\* ScanResult.  (Stated for the outputs of the documented shape.)
C13_ScanFailsOnlyWithScanError ==
    \A j \in JobIds :
        (call[j].pc = "scan_raised" /\ ~Malformed(j, "bandit")) =>
            /\ call[j].e.type = "ScanError"
            /\ ~call[j].path_exists \/ Did(j, "bandit", TimeoutExpired)

\* Every tool started in the call was missing (and one was started).
AllMissing(j) ==
    /\ tool[j].invoked /= {}
    /\ \A name \in tool[j].invoked : tool[j][name] = ToolNotFound

IssuesOf(result, category) == SelectSeq(result.issues, LAMBDA i : i.category = category)

\* C14: a missing tool executable never makes a checker raise and never
\* makes validate end with ERROR: a missing security tool, linter or type
\* checker contributes no findings (type_check_passed stays true), a
\* missing test tool gives a TestResult with passed=false and the text
\* 'pytest not available', and the run ends FAILED.
C14_MissingToolNeverError ==
    \A j \in JobIds :
        /\ AllMissing(j) =>
               /\ call[j].pc \notin RaisedPcs
               /\ call[j].e = None
               /\ call[j].status /= ERROR
        /\ (Did(j, "bandit", ToolNotFound) /\ Has(call[j].security_result)) =>
               \A i \in 1 .. Len(call[j].security_result.issues) :
                   IsSecretIssue(call[j].security_result.issues[i])
        /\ (Did(j, "ruff", ToolNotFound) /\ Has(call[j].quality_result)) =>
               /\ IssuesOf(call[j].quality_result, "lint") = <<>>
               /\ call[j].quality_result.lint_score = 100
        /\ (Did(j, "mypy", ToolNotFound) /\ Has(call[j].quality_result)) =>
               /\ IssuesOf(call[j].quality_result, "type") = <<>>
               /\ call[j].quality_result.type_check_passed
        /\ Did(j, "pytest", ToolNotFound) =>
               /\ call[j].pc \in {"run_returned", "aggregate", "finish", "returned"}
               /\ Has(call[j].test_result)
               /\ ~call[j].test_result.passed
               /\ call[j].test_result.output = "pytest not available"
               /\ call[j].pc \in {"finish", "returned"} => call[j].status = FAILED

\* C14 happens: validate returned FAILED from a run in which all four tools
\* were started and none was installed.
C14_Witness ==
    \E j \in JobIds :
        /\ Returned(j)
        /\ tool[j].invoked = ToolNames
        /\ AllMissing(j)
        /\ call[j].security_result.passed /\ call[j].quality_result.passed
        /\ call[j].status = FAILED

\* The linter's run with one finding more in its list.
OneMoreFinding(process) ==
    CompletedProcess(JsonText(JList(Append(process.stdout.doc.items, LintFinding))),
                     process.returncode)

\* The lint_score check gives for these tool runs.
ScoreOf(config, ruff, mypy) == check(config, TRUE, ruff, mypy).outcome.result.lint_score

\* C16: for every number n of lint findings check returns
\* lint_score = max(0, 100 - 5n): the score lies within [0, 100], does not
\* rise when a finding is added, is 0 from 20 findings on, and does not
\* depend on the findings of the type checker.
C16_LintScoreClamped ==
    \A j \in JobIds :
        call[j].pc = "check_returned" =>
            LET result == call[j].quality_result
                n == Len(IssuesOf(result, "lint"))
            IN /\ result.lint_score = Max(0, 100 - 5 * n)
               /\ result.lint_score >= 0 /\ result.lint_score <= 100
               /\ n >= 20 => result.lint_score = 0
               /\ result.lint_score =
                      ScoreOf([call[j].config EXCEPT !.require_type_hints = FALSE],
                              tool[j].ruff, ToolNotFound)
               /\ (tool[j].ruff.kind = "ran" /\ tool[j].ruff.stdout.t = "json") =>
                      /\ n = Len(tool[j].ruff.stdout.doc.items)
                      /\ ScoreOf(call[j].config, OneMoreFinding(tool[j].ruff), tool[j].mypy)
                             <= result.lint_score

\* C16 happens: a check with 21 lint findings and two findings of the type
\* checker scored 0.
C16_Witness ==
    \E j \in JobIds :
        /\ call[j].pc = "check_returned"
        /\ Len(IssuesOf(call[j].quality_result, "lint")) = MaxLint
        /\ Len(IssuesOf(call[j].quality_result, "type")) = MaxTypeLines
        /\ call[j].quality_result.lint_score = 0

\* C15 as stated: malformed output of the security tool or of the linter
\* (no JSON, or JSON of an unexpected shape) never fails the check: the
\* checker raises nothing and goes on with the findings it could parse.
C15_MalformedOutputNeverFails ==
    \A j \in JobIds :
        /\ Malformed(j, "bandit") => call[j].pc = "scan_returned"
        /\ (Malformed(j, "ruff") /\ ~Did(j, "mypy", TimeoutExpired)) =>
               call[j].pc = "check_returned"

\* C17: check returns passed = (lint count <= max_lint_issues) and (not
\* require_type_hints or type_check_passed); type_check_passed is false iff
\* the type checker was run and reported an error line or exited non-zero;
\* without require_type_hints the type checker is not run and
\* type_check_passed is true; a lint count equal to max_lint_issues passes.
C17_QualityPassed ==
    \A j \in JobIds :
        call[j].pc = "check_returned" =>
            LET result == call[j].quality_result
                config == call[j].config
                n == Len(IssuesOf(result, "lint"))
                mypy == tool[j].mypy
            IN /\ result.passed <=>
                      /\ n <= config.max_lint_issues
                      /\ ~config.require_type_hints \/ result.type_check_passed
               /\ ~result.type_check_passed <=>
                      /\ "mypy" \in tool[j].invoked
                      /\ mypy.kind = "ran"
                      /\ \/ \E i \in 1 .. Len(mypy.stdout) : mypy.stdout[i] = MypyLine("error")
                         \/ mypy.returncode /= 0
               /\ ~config.require_type_hints =>
                      "mypy" \notin tool[j].invoked /\ result.type_check_passed
               /\ config.require_type_hints => "mypy" \in tool[j].invoked
               /\ (n = config.max_lint_issues /\ result.type_check_passed) => result.passed

\* C17 happens: a check with exactly max_lint_issues lint findings and a
\* type checker that printed a note and exited 0 passed.
C17_Witness ==
    \E j \in JobIds :
        /\ call[j].pc = "check_returned"
        /\ call[j].config.require_type_hints
        /\ Len(IssuesOf(call[j].quality_result, "lint")) = call[j].config.max_lint_issues
        /\ tool[j].mypy = CompletedProcess(<<MypyLine("note")>>, 0)
        /\ call[j].quality_result.passed

\* C18: when run finds no test files on an existing path it does not start
\* the test tool and does not raise: it returns passed=false with the text
\* 'No test files found' if require_tests, and a passed=true result with
\* zero counts otherwise.
C18_NoTestFiles ==
    \A j \in JobIds :
        /\ (call[j].pc \in {"run_returned", "run_raised"}
               /\ call[j].path_exists /\ ~tool[j].test_files) =>
               call[j].pc = "run_returned"
        /\ (Has(call[j].test_result) /\ ~tool[j].test_files) =>
               LET result == call[j].test_result
               IN /\ "pytest" \notin tool[j].invoked
                  /\ tool[j].pytest = NoProcess
                  /\ call[j].config.require_tests =>
                         ~result.passed /\ result.output = "No test files found"
                  /\ ~call[j].config.require_tests =>
                         /\ result.passed
                         /\ result.total_tests = 0 /\ result.passed_tests = 0
                         /\ result.failed_tests = 0 /\ result.skipped_tests = 0
                         /\ result.error_tests = 0

\* C18 happens: run returned a failed result for a path without test files
\* with tests required.
C18_Witness ==
    \E j \in JobIds :
        /\ call[j].pc = "run_returned"
        /\ call[j].config.require_tests /\ ~tool[j].test_files
        /\ ~call[j].test_result.passed
        /\ call[j].test_result.output = "No test files found"

\* The test tool was started in the call and ran to its end.
PytestRan(j) == "pytest" \in tool[j].invoked /\ tool[j].pytest.kind = "ran"

\* C19: for every TestResult run returns after the test tool ran,
\* passed = (exit code 0 and failed_tests = 0 and error_tests = 0), forced
\* to false when min_coverage is set and the measured coverage is known and
\* strictly below it: failed or error tests make it false whatever
\* passed_tests is, a coverage equal to the minimum or unknown forces
\* nothing, and the coverage rule never makes a false verdict true.
C19_TestsPassed ==
    \A j \in JobIds :
        (Has(call[j].test_result) /\ PytestRan(j)) =>
            LET result == call[j].test_result
                min_coverage == call[j].config.min_coverage
                tests_ok == /\ tool[j].pytest.returncode = 0
                            /\ result.failed_tests = 0
                            /\ result.error_tests = 0
                below == /\ min_coverage /= None
                         /\ result.coverage_percent /= None
                         /\ result.coverage_percent.float < min_coverage.float
            IN /\ result.passed <=> (tests_ok /\ ~below)
               /\ (result.failed_tests > 0 \/ result.error_tests > 0) => ~result.passed
               /\ (min_coverage = None \/ result.coverage_percent \in {None, min_coverage}) =>
                      (result.passed <=> tests_ok)
               /\ ~tests_ok => ~result.passed
               /\ result.coverage_percent = tool[j].pytest.stdout.coverage

\* C19 happens: tests that all passed with exit code 0 and a coverage of 79
\* against a minimum of 80 give passed=false.
C19_Witness ==
    \E j \in JobIds :
        /\ call[j].pc = "run_returned" /\ PytestRan(j)
        /\ tool[j].pytest.returncode = 0
        /\ call[j].test_result.passed_tests = 2
        /\ call[j].test_result.failed_tests = 0 /\ call[j].test_result.error_tests = 0
        /\ call[j].config.min_coverage = Float(80)
        /\ call[j].test_result.coverage_percent = Float(79)
        /\ ~call[j].test_result.passed

\* The summary line has the form N passed[, M failed][, K skipped][, J error].
SummaryForm(tokens) ==
    /\ tokens /= <<>>
    /\ tokens[1].word = "passed"
    /\ \A i \in 1 .. Len(tokens) - 1 :
           <<tokens[i].word, tokens[i + 1].word>> \in
               {<<"passed", "failed">>, <<"passed", "skipped">>, <<"passed", "error">>,
                <<"failed", "skipped">>, <<"failed", "error">>, <<"skipped", "error">>}

\* The count the summary line gives for a status, 0 when it does not mention it.
SummaryCount(tokens, word) ==
    IF \E i \in 1 .. Len(tokens) : tokens[i].word = word
    THEN tokens[CHOOSE i \in 1 .. Len(tokens) : tokens[i].word = word].n
    ELSE 0

\* C20 as stated: when the output has a summary line, each of passed_tests,
\* failed_tests, skipped_tests and error_tests is the count the summary line
\* gives (0 for a status it does not mention), not the count of the case
\* lines, and total_tests is the sum of the four.
C20_SummaryAuthoritative ==
    \A j \in JobIds :
        (Has(call[j].test_result) /\ PytestRan(j)
            /\ SummaryForm(tool[j].pytest.stdout.summary)) =>
            LET result == call[j].test_result
                summary == tool[j].pytest.stdout.summary
            IN /\ result.passed_tests = SummaryCount(summary, "passed")
               /\ result.failed_tests = SummaryCount(summary, "failed")
               /\ result.skipped_tests = SummaryCount(summary, "skipped")
               /\ result.error_tests = SummaryCount(summary, "error")
               /\ result.total_tests = result.passed_tests + result.failed_tests
                                       + result.skipped_tests + result.error_tests

----------------------------------------------------------------------------
(* The life of a job and its writes (checked under Spec) *)

SCHEDULED == "SCHEDULED"
RETRY_SCHEDULED == "RETRY_SCHEDULED"
COMPLETED == "COMPLETED"
FAILED_PERMANENT == "FAILED_PERMANENT"

\* The state of the job's state machine a position belongs to: an attempt is
\* RUNNING from the moment a worker has taken it until the task body and
\* the retry decision are through.
JobState(p) ==
    CASE p = "scheduled" -> SCHEDULED
      [] p = "retry_scheduled" -> RETRY_SCHEDULED
      [] p = "completed" -> COMPLETED
      [] p = "failed_permanent" -> FAILED_PERMANENT
      [] p \in RunningPcs \cup {"handler", "autoretry"} -> RUNNING
      [] OTHER -> "NONE"

MachineSteps ==
    {<<SCHEDULED, RUNNING>>, <<RUNNING, COMPLETED>>, <<RUNNING, RETRY_SCHEDULED>>,
     <<RETRY_SCHEDULED, RUNNING>>, <<RUNNING, FAILED_PERMANENT>>}

\* The steps of an attempt in the order _run_validation has them.
AttemptOrder == <<"set_running", "download", "mkdtemp", "extract", "run_validate",
                  "validate", "return">>

Position(p) == CHOOSE i \in 1 .. Len(AttemptOrder) : AttemptOrder[i] = p

\* C22: a job follows SCHEDULED -> RUNNING -> {COMPLETED | RETRY_SCHEDULED
\* -> RUNNING | FAILED_PERMANENT}; COMPLETED and FAILED_PERMANENT are
\* absorbing for the submission (no attempt, no store write after them);
\* inside an attempt the RUNNING write comes before the download, the
\* download before extraction and validation, these before the result write,
\* and a result is written only in an attempt whose download, extraction and
\* validation completed.
C22_JobStateMachine ==
    [][\A j \in JobIds :
          /\ (JobState(pc'[j]) /= JobState(pc[j]) /\ runs'[j] = runs[j]) =>
                 <<JobState(pc[j]), JobState(pc'[j])>> \in MachineSteps
          /\ (pc[j] \in TerminalPcs /\ runs'[j] = runs[j]) =>
                 /\ pc'[j] = pc[j]
                 /\ writes'[j] = writes[j]
                 /\ retries'[j] = retries[j]
          /\ (pc[j] \in RunningPcs /\ pc'[j] \in RunningPcs /\ pc'[j] /= pc[j]) =>
                 Position(pc'[j]) = Position(pc[j]) + 1
          /\ (pc[j] \notin RunningPcs /\ pc'[j] \in RunningPcs) =>
                 pc'[j] = "set_running" /\ call'[j] = IdleCall
          /\ pc'[j] = "completed" => pc[j] \in {"return", "completed"}
          /\ writes'[j].running > writes[j].running =>
                 pc[j] = "set_running" /\ pc'[j] = "download"
          /\ (pc[j] = "set_running" /\ pc'[j] = "download" /\ version.exists) =>
                 writes'[j].running = writes[j].running + 1
          /\ writes'[j].results > writes[j].results =>
                 /\ pc[j] = "validate" /\ pc'[j] = "return"
                 /\ call[j].pc = "returned"
                 /\ call[j].status \in {PASSED, FAILED, ERROR}
      ]_vars

\* C22 happens: a job whose first attempt failed was retried, wrote RUNNING
\* twice and one result, and completed.
C22_Witness ==
    \E j \in JobIds :
        /\ pc[j] = "completed"
        /\ retries[j] = 1
        /\ writes[j] = [running |-> 2, failed |-> 0, results |-> 1]

----------------------------------------------------------------------------
(* Two jobs for the same versionID *)

\* Both jobs were submitted for the version and nothing deduplicates them.
\* Each write is one transaction on the row (select, assignments, commit),
\* which takes effect at its commit; the workers run the two jobs in any
\* interleaving of their steps.  The store is the resource the jobs share,
\* so the failures drawn here are those of the store.
InitConcurrent ==
    /\ pc = [j \in JobIds |-> "scheduled"]
    /\ retries = [j \in JobIds |-> 0]
    /\ runs = [j \in JobIds |-> 1]
    /\ history = [j \in JobIds |-> <<>>]
    /\ exc = [j \in JobIds |-> None]
    /\ soft_fired = [j \in JobIds |-> FALSE]
    /\ delays = [j \in JobIds |-> <<>>]
    /\ writes = [j \in JobIds |-> NoWrites]
    /\ call = [j \in JobIds |-> IdleCall]
    /\ dirs = {}
    /\ version \in {FreshVersion, SeededVersion}
    /\ clock = 0
    /\ tool = [j \in JobIds |-> IdleTool]
    /\ validation_service = None
    /\ got = [j \in JobIds |-> NoCall]

NextConcurrent ==
    \E j \in JobIds : validate_agent_task(j) /\ exc'[j] \in {None, DatabaseError}

SpecConcurrent == InitConcurrent /\ [][NextConcurrent]_vars

\* The fields every result write assigns, as a result gives them.
AssignedFrom(result) ==
    [tested |-> TRUE,
     security_scan_passed |-> IF Has(result.security_result)
                              THEN result.security_result.passed ELSE TRUE,
     is_validated |-> result.status = PASSED]

AssignedFields(v) ==
    [tested |-> v.tested,
     security_scan_passed |-> v.security_scan_passed,
     is_validated |-> v.is_validated]

\* Job j commits a RUNNING write / a result write in this step.
CommitsRunning(j) == writes'[j].running = writes[j].running + 1
CommitsResult(j) == writes'[j].results = writes[j].results + 1

----------------------------------------------------------------------------
(* The two store functions called on their own *)

\* The ValidationResults validate can return.
ValidationResults ==
    UNION {{TryBlock(CheckOrder, config, o, InitialLocals) :
                o \in OutcomeTriples([config |-> config, path_exists |-> path_exists])} :
           config \in Configs, path_exists \in BOOLEAN}

\* The frame of a caller of a store function: the arguments it passed.
StatusArguments(status, error_message) ==
    [IdleCall EXCEPT !.pc = "status_written",
                     !.status = status,
                     !.error_message = error_message]

ResultArgument(result) ==
    [IdleCall EXCEPT !.pc = "results_written",
                     !.status = result.status,
                     !.security_result = result.security_result,
                     !.quality_result = result.quality_result,
                     !.test_result = result.test_result,
                     !.error_message = result.error_message]

\* await _update_validation_status(agent_version_id, status, error_message)
update_validation_status_call(j) ==
    /\ pc[j] = "store"
    /\ \E status \in {RUNNING, FAILED, PENDING},
          error_message \in {NoneStr, "Max retries exceeded"} :
           /\ call' = [call EXCEPT ![j] = StatusArguments(status, error_message)]
           /\ version' = update_validation_status(version, status, error_message)
    /\ UNCHANGED <<pc, retries, runs, history, exc, soft_fired, delays, writes, dirs, clock, tool, validation_service, got>>

\* await _update_validation_results(agent_version_id, result)
update_validation_results_call(j) ==
    /\ pc[j] = "store"
    /\ \E result \in ValidationResults :
           /\ call' = [call EXCEPT ![j] = ResultArgument(result)]
           /\ version' = UpdateResults(version, call'[j])
    /\ UNCHANGED <<pc, retries, runs, history, exc, soft_fired, delays, writes, dirs, clock, tool, validation_service, got>>

InitStore ==
    /\ pc = [j \in JobIds |-> IF j = 1 THEN "store" ELSE "none"]
    /\ retries = [j \in JobIds |-> 0]
    /\ runs = [j \in JobIds |-> 0]
    /\ history = [j \in JobIds |-> <<>>]
    /\ exc = [j \in JobIds |-> None]
    /\ soft_fired = [j \in JobIds |-> FALSE]
    /\ delays = [j \in JobIds |-> <<>>]
    /\ writes = [j \in JobIds |-> NoWrites]
    /\ call = [j \in JobIds |-> IdleCall]
    /\ dirs = {}
    /\ version \in {FreshVersion, SeededVersion, OrphanVersion, NoVersion}
    /\ clock = 0
    /\ tool = [j \in JobIds |-> IdleTool]
    /\ validation_service = None
    /\ got = [j \in JobIds |-> NoCall]

NextStore ==
    \E j \in JobIds : update_validation_status_call(j) \/ update_validation_results_call(j)

SpecStore == InitStore /\ [][NextStore]_vars

\* C24 as stated: the message passed with the terminal FAILED status
\* ('Max retries exceeded') is persisted with the version record.  A
\* record that holds the message is not the record the same write leaves
\* without a message.
C24_FailureMessagePersisted ==
    [][\A j \in JobIds :
          (/\ call'[j] = StatusArguments(FAILED, "Max retries exceeded")
           /\ version.exists) =>
              version' /= update_validation_status(version, FAILED, NoneStr)
      ]_vars

\* C25: _update_validation_results sets tested to True, security_scan_passed
\* to security_result.passed when there is a security result and to True
\* when there is none, writes quality_score only when there is a quality
\* result, and sets the parent agent's is_validated to result.passed when
\* the version has a parent agent.
C25_ResultMapping ==
    [][\A j \in JobIds :
          (call'[j].pc = "results_written" /\ version.exists) =>
              LET result == call'[j] IN
              /\ version'.tested
              /\ version'.security_scan_passed =
                     IF Has(result.security_result)
                     THEN result.security_result.passed ELSE TRUE
              /\ version'.quality_score =
                     IF Has(result.quality_result)
                     THEN Decimal(result.quality_result.lint_score)
                     ELSE version.quality_score
              /\ version'.is_validated =
                     IF version.has_agent
                     THEN result.status = PASSED ELSE version.is_validated
              /\ version'.exists /\ version'.has_agent = version.has_agent
      ]_vars

\* C25 happens: a FAILED result without security result and with a quality
\* result was written to a version with a parent agent.
C25_Witness ==
    \E j \in JobIds :
        /\ call[j].pc = "results_written" /\ call[j].status = FAILED
        /\ ~Has(call[j].security_result) /\ Has(call[j].quality_result)
        /\ version.exists /\ version.has_agent
        /\ version.tested /\ version.security_scan_passed
        /\ version.quality_score = Decimal(call[j].quality_result.lint_score)
        /\ ~version.is_validated

\* C26: when there is no version record for the versionID,
\* _update_validation_status and _update_validation_results are no-ops: they
\* change no record and commit nothing, and the job still runs validation
\* and completes.
C26_UnknownVersionNoOp ==
    /\ [][~version.exists =>
              /\ version' = version
              /\ writes' = writes
              /\ \A j \in JobIds :
                     /\ (pc[j] = "set_running" /\ pc'[j] /= pc[j]) =>
                            pc'[j] \in {"download", "handler", "failed_permanent"}
                     /\ (pc[j] = "validate" /\ call[j].pc = "returned" /\ pc'[j] /= pc[j]) =>
                            pc'[j] \in {"return", "handler", "failed_permanent"}
        ]_vars
    /\ [](/\ \A status \in {RUNNING, FAILED, PENDING} :
                update_validation_status(NoVersion, status, "Max retries exceeded") = NoVersion
          /\ \A result \in ValidationResults :
                UpdateResults(NoVersion, ResultArgument(result)) = NoVersion)

\* C26 happens: a job for a versionID without record ran validation to a
\* result and completed at its first attempt, and nothing was committed.
C26_Witness ==
    \E j \in JobIds :
        /\ ~version.exists
        /\ pc[j] = "completed" /\ retries[j] = 0
        /\ call[j].pc = "returned" /\ call[j].status = PASSED
        /\ writes[j] = NoWrites

----------------------------------------------------------------------------
(* get_validation_service (services/validation_service.py, lines 230-246) *)

\* ValidationService(config), line 121: self.config = config or
\* ValidationConfig(); id tells the objects apart.
ValidationService(id, config) ==
    [id |-> id,
     config |-> IF config = None THEN ValidationConfig(FALSE, FALSE, FALSE, FALSE)
                ELSE config]

\* The ValidationService objects somebody holds.
Held ==
    (IF validation_service = None THEN {} ELSE {validation_service})
    \cup {got[j].service : j \in {k \in JobIds : got[k] /= NoCall}}

\* A new object is none of those that exist.
NewId == 1 + Cardinality({service.id : service \in Held})

\* The config argument: left out (None) or a ValidationConfig.
ConfigArguments == {None} \cup Configs

\* A slip that rebuilds the service when a config is passed.
get_validation_service_reconfigures(j) ==
    /\ pc[j] = "getter"
    /\ \E config \in ConfigArguments :
           /\ validation_service' =
                  IF validation_service = None \/ config /= None
                  THEN ValidationService(NewId, config)
                  ELSE validation_service
           /\ got' = [got EXCEPT ![j] = [called |-> TRUE, config |-> config,
                                         service |-> validation_service']]
    /\ UNCHANGED <<pc, retries, runs, history, exc, soft_fired, delays, writes, call, dirs, version, clock, tool>>

\* get_validation_service(config), lines 243-246.
get_validation_service(j) ==
    /\ pc[j] = "getter"
    /\ \E config \in ConfigArguments :
           /\ validation_service' =
                  IF validation_service = None
                  THEN ValidationService(NewId, config)
                  ELSE validation_service
           /\ got' = [got EXCEPT ![j] = [called |-> TRUE, config |-> config,
                                         service |-> validation_service']]
    /\ UNCHANGED <<pc, retries, runs, history, exc, soft_fired, delays, writes, call, dirs, version, clock, tool>>

\* The singleton has just been reset (line 231) and two callers get the
\* service, each any number of times.
InitGet ==
    /\ pc = [j \in JobIds |-> "getter"]
    /\ retries = [j \in JobIds |-> 0]
    /\ runs = [j \in JobIds |-> 0]
    /\ history = [j \in JobIds |-> <<>>]
    /\ exc = [j \in JobIds |-> None]
    /\ soft_fired = [j \in JobIds |-> FALSE]
    /\ delays = [j \in JobIds |-> <<>>]
    /\ writes = [j \in JobIds |-> NoWrites]
    /\ call = [j \in JobIds |-> IdleCall]
    /\ dirs = {}
    /\ version = FreshVersion
    /\ clock = 0
    /\ tool = [j \in JobIds |-> IdleTool]
    /\ validation_service = None
    /\ got = [j \in JobIds |-> NoCall]

NextGet == \E j \in JobIds : get_validation_service(j)

SpecGet == InitGet /\ [][NextGet]_vars

\* C27: after any sequence of get_validation_service calls since the
\* singleton was reset, every call has returned the same instance, whose
\* config is the one of the first call (the defaults if it gave none); a
\* config passed later is ignored and the instance is never replaced.
C27_SingletonKeepsFirstConfig ==
    /\ [](\A j \in JobIds :
              got[j] /= NoCall =>
                  /\ validation_service /= None
                  /\ got[j].service = validation_service)
    /\ [][/\ validation_service /= None => validation_service' = validation_service
          /\ validation_service = None =>
                 \A j \in JobIds :
                     got'[j] /= got[j] =>
                         validation_service' = ValidationService(1, got'[j].config)
        ]_vars

\* C27 happens: the service was created with the defaults and a caller that
\* passed another config afterwards got the same instance.
C27_Witness ==
    /\ validation_service = ValidationService(1, None)
    /\ got[1] = [called |-> TRUE, config |-> None, service |-> validation_service]
    /\ got[2] = [called |-> TRUE, config |-> ValidationConfig(TRUE, TRUE, TRUE, TRUE),
                 service |-> validation_service]

----------------------------------------------------------------------------
(* What a job leaves on the record (checked under Spec) *)

\* The result of the current attempt of job j has been written.
ResultWritten(j) == pc[j] \in {"return", "completed"} /\ version.exists

\* C28 as stated: security_scan_passed is True on the record only if the
\* most recent result write came from a run whose security scan completed
\* and returned passed=true; a run whose scan timed out or raised (status
\* ERROR, no security result) never leaves security_scan_passed=True.
C28_ScanPassedOnlyAfterPassingScan ==
    \A j \in JobIds :
        (ResultWritten(j) /\ version.security_scan_passed) =>
            Has(call[j].security_result) /\ call[j].security_result.passed

\* The exceptions behind the failures of the steps around validate.
StepFailures ==
    {<<"set_running", DatabaseError>>, <<"download", DownloadError>>,
     <<"extract", BadZipFile>>, <<"validate", DatabaseError>>}

====
